---- MODULE Spec2Model ----
(***************************************************************************)
(* Model of the btc-tx-stats indexer: the catch-up / tailing engine of     *)
(* main.rs and processor.rs, the per-block database transaction of         *)
(* process_single_block, the store operations of db.rs and the script      *)
(* classifier of processor.rs.                                             *)
(***************************************************************************)
EXTENDS Integers, Sequences, FiniteSets, TLC

(***************************************************************************)
(* Bounds of the model.                                                    *)
(***************************************************************************)
\* highest tip height the node ever reports
MaxHeight == 3
\* how often SpecReprocess calls process_single_block for a stored height
MaxReruns == 1
\* how often in a row the node refuses the client at startup
MaxConnectFailures == 8

(***************************************************************************)
(* Program constants.                                                      *)
(***************************************************************************)
MAX_RETRIES == 3
RETRY_DELAY == 2
TipRecheckInterval == 100

\* SQL NULL of a nullable BIGINT column (ids start at 1)
NoId == 0
\* SQL NULL of the nullable BYTEA column public_key / Option::None
NoKey == "none"
\* the previous-output reference of a coinbase input: the all-zero txid and
\* vout 0xffffffff, written as its 32-bit two's complement image
NullTxid == 0
NullVout == -1

(***************************************************************************)
(* Scripts: a script is the list of instructions script.instructions()     *)
(* yields.  A push carries its length and its bytes (an identifier); any   *)
(* other opcode carries its name.  OP_0 is a push of the empty byte        *)
(* string.                                                                 *)
(***************************************************************************)
Op(name) == [op |-> name, len |-> 0, data |-> ""]
Push(n, d) == [op |-> "PUSH", len |-> n, data |-> d]
IsPush(i) == i.op = "PUSH"
\* the end of a script whose bytes stop in the middle of a push: the
\* instruction iterator yields an error there and stops
Truncated == Op("TRUNCATED")

\* script.instructions().filter_map(Result::ok).collect()
Instructions(script) ==
    IF script # <<>> /\ script[Len(script)] = Truncated
    THEN SubSeq(script, 1, Len(script) - 1)
    ELSE script

\* hash160 / raw byte strings used as address payloads
RawBytes(d) == [raw |-> d, script |-> <<>>]
Hash160(script) == [raw |-> "", script |-> script]

\* base58::encode_check(version || payload)
Base58Check(version, payload) == [enc |-> "base58check", ver |-> version, payload |-> payload]
\* hex::encode(bytes)
HexEncode(d) == [enc |-> "hex", ver |-> 0, payload |-> RawBytes(d)]

encode_bech32_address(hrp_str, version_u8, program) ==
    IF version_u8 = 0
    THEN [ok |-> TRUE, address |-> [enc |-> "bech32", ver |-> 0, payload |-> RawBytes(program)]]
    ELSE IF version_u8 = 1
    THEN [ok |-> TRUE, address |-> [enc |-> "bech32m", ver |-> 1, payload |-> RawBytes(program)]]
    ELSE [ok |-> FALSE, address |-> [enc |-> "error", ver |-> version_u8, payload |-> RawBytes(program)]]

\* serde_json values attached to an address (absent fields keep their default)
NoExtra == [pattern |-> "null", pubkey_format |-> "", m |-> 0, n |-> 0,
            hash_position |-> -1, ops |-> <<>>]
None == [some |-> FALSE, address |-> HexEncode(""), script_type |-> "", extra_data |-> NoExtra]
Some(a, t, e) == [some |-> TRUE, address |-> a, script_type |-> t, extra_data |-> e]

\* format!("PUSH({} bytes)") / format!("{:?}", op)
OpString(i) == IF IsPush(i) THEN <<"PUSH", i.len>> ELSE <<i.op, 0>>
ScriptOps(instructions) == [k \in 1..Len(instructions) |-> OpString(instructions[k])]

PushNums == {"OP_PUSHNUM_1", "OP_PUSHNUM_2", "OP_PUSHNUM_3", "OP_PUSHNUM_4",
             "OP_PUSHNUM_5", "OP_PUSHNUM_6", "OP_PUSHNUM_7", "OP_PUSHNUM_8",
             "OP_PUSHNUM_9", "OP_PUSHNUM_10", "OP_PUSHNUM_11", "OP_PUSHNUM_12",
             "OP_PUSHNUM_13", "OP_PUSHNUM_14", "OP_PUSHNUM_15", "OP_PUSHNUM_16"}

\* Script::is_p2pkh, is_p2sh, is_witness_program, is_p2wpkh, is_p2wsh
is_p2pkh(s) ==
    /\ Len(s) = 5
    /\ s[1].op = "OP_DUP" /\ s[2].op = "OP_HASH160"
    /\ IsPush(s[3]) /\ s[3].len = 20
    /\ s[4].op = "OP_EQUALVERIFY" /\ s[5].op = "OP_CHECKSIG"
is_p2sh(s) ==
    /\ Len(s) = 3
    /\ s[1].op = "OP_HASH160" /\ IsPush(s[2]) /\ s[2].len = 20 /\ s[3].op = "OP_EQUAL"
is_witness_program(s) ==
    /\ Len(s) = 2
    /\ \/ (IsPush(s[1]) /\ s[1].len = 0)
       \/ s[1].op \in PushNums
    /\ IsPush(s[2]) /\ s[2].len >= 2 /\ s[2].len <= 40
\* a 20-byte program of any witness version
is_p2wpkh_any_version(s) == is_witness_program(s) /\ s[2].len = 20
is_p2wpkh(s) == is_witness_program(s) /\ IsPush(s[1]) /\ s[1].len = 0 /\ s[2].len = 20
is_p2wsh(s) == is_witness_program(s) /\ IsPush(s[1]) /\ s[1].len = 0 /\ s[2].len = 32

\* a table that also knows OP_PUSHNUM_4
PushNumValueUpTo4(name) ==
    CASE name = "OP_PUSHNUM_1" -> 1
      [] name = "OP_PUSHNUM_2" -> 2
      [] name = "OP_PUSHNUM_3" -> 3
      [] name = "OP_PUSHNUM_4" -> 4
      [] OTHER -> 0
PushNumValue(name) ==
    CASE name = "OP_PUSHNUM_1" -> 1
      [] name = "OP_PUSHNUM_2" -> 2
      [] name = "OP_PUSHNUM_3" -> 3
      [] OTHER -> 0

\* index (0-based) of the first 20-byte push, or -1
RECURSIVE FirstHashPush(_, _)
FirstHashPush(s, k) ==
    IF k > Len(s) THEN -1
    ELSE IF IsPush(s[k]) /\ s[k].len = 20 THEN k - 1
    ELSE FirstHashPush(s, k + 1)

\* the tail of extract_address_from_script: the generic fallbacks
ClassifyFallback(script) ==
    LET s == Instructions(script)
        i == FirstHashPush(s, 1) IN
    IF i >= 0
    THEN Some(Base58Check(0, RawBytes(s[i + 1].data)), "non-standard",
              [NoExtra EXCEPT !.pattern = "hash160-found", !.hash_position = i,
                              !.ops = ScriptOps(s)])
    ELSE IF script # <<>>
    THEN Some(Base58Check(5, Hash160(script)), "unknown",
              [NoExtra EXCEPT !.pattern = "script_pattern", !.ops = ScriptOps(s)])
    ELSE None

\* the non-standard P2PKH-plus rule, then the fallbacks
ClassifyNonStandard(script) ==
    LET s == Instructions(script) IN
    IF /\ Len(s) > 5
       /\ s[1].op = "OP_DUP" /\ s[2].op = "OP_HASH160" /\ IsPush(s[3])
       /\ s[4].op = "OP_EQUALVERIFY" /\ s[5].op = "OP_CHECKSIG"
       /\ s[3].len = 20
    THEN Some(Base58Check(0, RawBytes(s[3].data)), "non-standard",
              [NoExtra EXCEPT !.pattern = "p2pkh-plus",
                              !.ops = SubSeq(ScriptOps(s), 6, Len(s))])
    ELSE ClassifyFallback(script)

\* the P2MS rule, then the non-standard rules
ClassifyMultisig(script) ==
    LET s == Instructions(script) IN
    IF Len(s) >= 4 /\ s[Len(s)].op = "OP_CHECKMULTISIG"
       /\ ~IsPush(s[1]) /\ ~IsPush(s[Len(s) - 1])
    THEN LET m == PushNumValue(s[1].op)
             n == PushNumValue(s[Len(s) - 1].op) IN
         IF m = 0 \/ n = 0 THEN None
         ELSE IF m <= n /\ Len(s) = n + 3
         THEN Some(Base58Check(5, Hash160(script)), "p2ms",
                   [NoExtra EXCEPT !.pattern = "p2ms", !.m = m, !.n = n])
         ELSE ClassifyNonStandard(script)
    ELSE ClassifyNonStandard(script)

extract_address_from_script(script) ==
    LET instructions == Instructions(script) IN
    IF is_p2pkh(script)
    THEN Some(Base58Check(0, RawBytes(instructions[3].data)), "p2pkh", NoExtra)
    ELSE IF is_p2sh(script)
    THEN Some(Base58Check(5, RawBytes(instructions[2].data)), "p2sh", NoExtra)
    ELSE IF Len(instructions) = 2 /\ IsPush(instructions[1])
            /\ instructions[2].op = "OP_CHECKSIG"
    THEN IF instructions[1].len = 33 \/ instructions[1].len = 65
         THEN Some(HexEncode(instructions[1].data), "p2pk",
                   [NoExtra EXCEPT !.pattern = "p2pk",
                       !.pubkey_format = IF instructions[1].len = 33 THEN "compressed"
                                         ELSE "uncompressed"])
         ELSE ClassifyMultisig(script)
    ELSE IF is_witness_program(script)
    THEN IF is_p2wpkh(script)
         THEN Some(encode_bech32_address("bc", 0, instructions[2].data).address, "p2wpkh", NoExtra)
         ELSE IF is_p2wsh(script)
         THEN Some(encode_bech32_address("bc", 0, instructions[2].data).address, "p2wsh", NoExtra)
         ELSE IF instructions[1].op = "OP_PUSHNUM_1" /\ instructions[2].len = 32
         THEN Some(encode_bech32_address("bc", 1, instructions[2].data).address, "p2tr", NoExtra)
         ELSE ClassifyMultisig(script)
    ELSE ClassifyMultisig(script)

\* a key taken from the last push of any script
extract_public_key_from_last_push(script) ==
    LET s == Instructions(script) IN
    IF s # <<>> /\ IsPush(s[Len(s)]) /\ (s[Len(s)].len = 33 \/ s[Len(s)].len = 65)
    THEN s[Len(s)].data
    ELSE NoKey
\* extract_public_key_from_script: the revealed key of a scriptSig, or NoKey
extract_public_key_from_script(script) ==
    LET s == Instructions(script) IN
    IF Len(s) = 2 /\ IsPush(s[1]) /\ IsPush(s[2]) /\ (s[2].len = 33 \/ s[2].len = 65)
    THEN s[2].data
    ELSE NoKey

(***************************************************************************)
(* The chain served by the node.  A transaction is its txid, its inputs    *)
(* (previous output reference and scriptSig) and its outputs (value and    *)
(* scriptPubKey).  Stored transaction ids are hex::decode of the txid's    *)
(* hex string, an injective image of the txid, written here as the txid.   *)
(***************************************************************************)
TxIn(prev_txid, vout, script_sig) ==
    [prev_txid |-> prev_txid, vout |-> vout, script_sig |-> script_sig]
TxOut(value, script_pubkey) == [value |-> value, script_pubkey |-> script_pubkey]
Tx(txid, input, output) == [txid |-> txid, input |-> input, output |-> output]

CoinbaseIn == TxIn(NullTxid, NullVout, <<Push(4, "height")>>)
P2PKH(h) == <<Op("OP_DUP"), Op("OP_HASH160"), Push(20, h), Op("OP_EQUALVERIFY"),
              Op("OP_CHECKSIG")>>
\* a script anyone can spend with two pushes
AnyoneCanSpend == <<Op("OP_2DROP"), Op("OP_PUSHNUM_1")>>
SigScript(sig, key) == <<Push(71, sig), Push(33, key)>>

\* Transaction::is_coinbase: exactly one input, with the null previous output
is_coinbase(tx) ==
    /\ Len(tx.input) = 1
    /\ tx.input[1].prev_txid = NullTxid
    /\ tx.input[1].vout = NullVout

\* the block the node serves at height h (header time h, hash h)
TxData(h) ==
    CASE h = 0 -> << Tx(100, <<CoinbaseIn>>, <<TxOut(50, P2PKH("h1"))>>) >>
      [] h = 1 -> << Tx(110, <<CoinbaseIn>>, <<TxOut(50, AnyoneCanSpend), TxOut(0, <<>>)>>),
                     Tx(111, <<TxIn(100, 0, SigScript("s1", "k1"))>>,
                             <<TxOut(30, P2PKH("h2")), TxOut(20, P2PKH("h1"))>>) >>
      [] h = 2 -> << Tx(120, <<CoinbaseIn>>, <<TxOut(50, AnyoneCanSpend),
                                               TxOut(1, P2PKH("h3"))>>),
                     Tx(121, <<TxIn(111, 0, SigScript("s2", "k2")),
                               TxIn(999, 0, SigScript("s2", "k2")),
                               TxIn(111, 0, SigScript("s2", "k2"))>>,
                             <<TxOut(25, P2PKH("h1"))>>),
                     Tx(122, <<TxIn(121, 0, SigScript("s3", "k1")),
                               TxIn(110, 0, SigScript("s4", "k3"))>>,
                             <<TxOut(0, <<>>), TxOut(70, P2PKH("h2"))>>) >>
      [] h = 3 -> << Tx(100, <<CoinbaseIn>>, <<TxOut(50, P2PKH("h1"))>>),
                     Tx(131, <<TxIn(110, 1, SigScript("s5", "k4")),
                               TxIn(111, 5, SigScript("s5", "k4")),
                               TxIn(120, 0, SigScript("s5", "k4")),
                               TxIn(100, 0, SigScript("s6", "k1"))>>,
                             <<TxOut(90, P2PKH("h2")),
                               TxOut(5, P2PKH("h3") \o <<Op("OP_NOP")>>),
                               TxOut(4, <<Op("OP_NOP"), Push(20, "h2")>>)>>) >>
      [] OTHER -> << Tx(100 + 10 * h, <<CoinbaseIn>>, <<TxOut(50, AnyoneCanSpend)>>),
                     Tx(101 + 10 * h, <<TxIn(90 + 10 * h, 0, SigScript("s7", "k3"))>>,
                             <<TxOut(10, P2PKH("h2"))>>) >>

ChainBlock(h) == [block_hash |-> h, time |-> h, txdata |-> TxData(h)]

(***************************************************************************)
(* The store (db.rs).  blocks and transactions are sets of rows keyed by   *)
(* their primary keys; txid_block_index, addresses, address_outputs and    *)
(* address_inputs are kept in insertion order, the generated id of a row   *)
(* being its position.                                                     *)
(***************************************************************************)
EmptyDb == [blocks |-> {}, transactions |-> {}, txid_block_index |-> <<>>,
            addresses |-> <<>>, address_outputs |-> <<>>, address_inputs |-> <<>>]

SeqToSet(q) == {q[k] : k \in 1..Len(q)}

\* get_last_processed_height: the greatest stored height, or -1 for None
\* the query ordered by ascending height
get_last_processed_height_asc(d) ==
    IF d.blocks = {} THEN -1
    ELSE CHOOSE h \in {b.block_height : b \in d.blocks} :
             \A b \in d.blocks : b.block_height >= h

get_last_processed_height(d) ==
    IF d.blocks = {} THEN -1
    ELSE CHOOSE h \in {b.block_height : b \in d.blocks} :
             \A b \in d.blocks : b.block_height <= h

\* a block row whose count leaves the coinbase out
store_processed_block_without_coinbase(d, block_height_val, block_hash_val, block_timestamp_val, tx_count_val) ==
    [d EXCEPT !.blocks = {b \in @ : b.block_height # block_height_val}
                           \cup {[block_height |-> block_height_val,
                                  block_hash |-> block_hash_val,
                                  block_timestamp |-> block_timestamp_val,
                                  transaction_count |-> tx_count_val - 1]}]
\* store_processed_block: insert, on conflict (block_height) update the rest
store_processed_block(d, block_height_val, block_hash_val, block_timestamp_val, tx_count_val) ==
    LET new_block_record == [block_height |-> block_height_val,
                             block_hash |-> block_hash_val,
                             block_timestamp |-> block_timestamp_val,
                             transaction_count |-> tx_count_val] IN
    [d EXCEPT !.blocks = {b \in @ : b.block_height # block_height_val}
                           \cup {new_block_record}]

\* an index insert without the conflict clause
add_txid_to_index_always_appends(d, txid, block_height_val) ==
    [d EXCEPT !.txid_block_index =
        Append(@, [transaction_id |-> txid, block_height |-> block_height_val])]
\* add_txid_to_index: insert, on conflict (transaction_id, block_height) do nothing
add_txid_to_index(d, txid, block_height_val) ==
    LET new_index_record == [transaction_id |-> txid, block_height |-> block_height_val] IN
    IF new_index_record \in SeqToSet(d.txid_block_index) THEN d
    ELSE [d EXCEPT !.txid_block_index = Append(@, new_index_record)]

\* store_transaction: insert, on conflict (transaction_id, block_height) do
\* nothing; then add the txid to the index
store_transaction(d, block_height_val, tx_index_val, txid, is_coinbase_val, input_count_val, output_count_val, fee_satoshis_val) ==
    LET new_tx_record == [transaction_id |-> txid, block_height |-> block_height_val,
                          transaction_index |-> tx_index_val,
                          is_coinbase |-> is_coinbase_val,
                          input_count |-> input_count_val,
                          output_count |-> output_count_val,
                          fee_satoshis |-> fee_satoshis_val]
        conflict == \E t \in d.transactions :
                        t.transaction_id = txid /\ t.block_height = block_height_val
        d1 == IF conflict THEN d
              ELSE [d EXCEPT !.transactions = @ \cup {new_tx_record}] IN
    add_txid_to_index(d1, txid, block_height_val)

\* an insert without the read before it
get_or_create_address_insert_only(d, address_string_val, script_type_val, first_seen_block_height_val, extra_data_val) ==
    [db |-> [d EXCEPT !.addresses = Append(@,
                [address_id |-> Len(d.addresses) + 1,
                 address_string |-> address_string_val,
                 script_type |-> script_type_val,
                 first_seen_block_height |-> first_seen_block_height_val,
                 total_receive_count |-> 0,
                 total_spend_count |-> 0,
                 is_public_key_exposed |-> FALSE,
                 public_key |-> NoKey,
                 script_extra_data |-> extra_data_val])],
     id |-> Len(d.addresses) + 1]
\* an upsert that moves first_seen_block_height of a stored row
get_or_create_address_updates_first_seen(d, address_string_val, script_type_val, first_seen_block_height_val, extra_data_val) ==
    LET existing == {k \in 1..Len(d.addresses) :
                        d.addresses[k].address_string = address_string_val} IN
    IF existing = {}
    THEN get_or_create_address_insert_only(d, address_string_val, script_type_val,
                                           first_seen_block_height_val, extra_data_val)
    ELSE [db |-> [d EXCEPT !.addresses = [k \in 1..Len(@) |->
                     IF k \in existing
                     THEN [@[k] EXCEPT !.first_seen_block_height = first_seen_block_height_val]
                     ELSE @[k]]],
          id |-> d.addresses[CHOOSE k \in existing : \A j \in existing : k <= j].address_id]
\* an upsert that overwrites script_type and script_extra_data of a stored row
get_or_create_address_updates_script_type(d, address_string_val, script_type_val, first_seen_block_height_val, extra_data_val) ==
    LET existing == {k \in 1..Len(d.addresses) :
                        d.addresses[k].address_string = address_string_val} IN
    IF existing = {}
    THEN get_or_create_address_insert_only(d, address_string_val, script_type_val,
                                           first_seen_block_height_val, extra_data_val)
    ELSE [db |-> [d EXCEPT !.addresses = [k \in 1..Len(@) |->
                     IF k \in existing
                     THEN [@[k] EXCEPT !.script_type = script_type_val,
                                       !.script_extra_data = extra_data_val]
                     ELSE @[k]]],
          id |-> d.addresses[CHOOSE k \in existing : \A j \in existing : k <= j].address_id]
\* get_or_create_address: the id of the row with this address string,
\* inserting the row when there is none
get_or_create_address(d, address_string_val, script_type_val, first_seen_block_height_val, extra_data_val) ==
    LET existing == {k \in 1..Len(d.addresses) :
                        d.addresses[k].address_string = address_string_val} IN
    IF existing # {}
    THEN [db |-> d, id |-> d.addresses[CHOOSE k \in existing : \A j \in existing : k <= j].address_id]
    ELSE LET new_id == Len(d.addresses) + 1
             new_address == [address_id |-> new_id,
                             address_string |-> address_string_val,
                             script_type |-> script_type_val,
                             first_seen_block_height |-> first_seen_block_height_val,
                             total_receive_count |-> 0,
                             total_spend_count |-> 0,
                             is_public_key_exposed |-> FALSE,
                             public_key |-> NoKey,
                             script_extra_data |-> extra_data_val] IN
         [db |-> [d EXCEPT !.addresses = Append(@, new_address)], id |-> new_id]

IncReceive(a) == [a EXCEPT !.total_receive_count = @ + 1]
\* update_address_receive_count: UPDATE addresses SET total_receive_count =
\* total_receive_count + 1 WHERE address_id = id
update_address_receive_count(d, address_id_val) ==
    [d EXCEPT !.addresses = [k \in 1..Len(@) |->
        IF @[k].address_id = address_id_val THEN IncReceive(@[k]) ELSE @[k]]]

IncSpend(a) == [a EXCEPT !.total_spend_count = @ + 1]
\* a spend that is not counted
update_address_spend_count_skipped(d, address_id_val) == d
\* update_address_spend_count: UPDATE addresses SET total_spend_count =
\* total_spend_count + 1 WHERE address_id = id
update_address_spend_count(d, address_id_val) ==
    [d EXCEPT !.addresses = [k \in 1..Len(@) |->
        IF @[k].address_id = address_id_val THEN IncSpend(@[k]) ELSE @[k]]]

\* an update that stores the key and leaves the flag alone
update_address_public_key_only(d, address_id_val, pubkey) ==
    [d EXCEPT !.addresses = [k \in 1..Len(@) |->
        IF @[k].address_id = address_id_val
        THEN [@[k] EXCEPT !.public_key = pubkey]
        ELSE @[k]]]
\* update_address_public_key: UPDATE addresses SET public_key,
\* is_public_key_exposed = true WHERE address_id = id
update_address_public_key(d, address_id_val, pubkey) ==
    [d EXCEPT !.addresses = [k \in 1..Len(@) |->
        IF @[k].address_id = address_id_val
        THEN [@[k] EXCEPT !.public_key = pubkey, !.is_public_key_exposed = TRUE]
        ELSE @[k]]]

\* store_transaction_output: insert the output row, bump the receive count
store_transaction_output(d, address_id_val, txid, block_height_val, output_index_val, value_satoshis_val) ==
    LET new_output == [output_id |-> Len(d.address_outputs) + 1,
                       address_id |-> address_id_val,
                       transaction_id |-> txid,
                       block_height |-> block_height_val,
                       output_index |-> output_index_val,
                       value_satoshis |-> value_satoshis_val,
                       is_spent |-> FALSE,
                       spending_input_id |-> NoId]
        d1 == [d EXCEPT !.address_outputs = Append(@, new_output)] IN
    update_address_receive_count(d1, address_id_val)

NoOutput == [found |-> FALSE, output_id |-> NoId, address_id |-> NoId, value_satoshis |-> 0]

\* find_output: the heights indexed for the txid, in table order; at each the
\* first unspent output row with that txid, height and index
RECURSIVE FindAtHeights(_, _, _, _)
FindAtHeights(d, block_heights, txid, output_index_val) ==
    IF block_heights = <<>> THEN NoOutput
    ELSE LET height == Head(block_heights)
             hits == {k \in 1..Len(d.address_outputs) :
                         /\ d.address_outputs[k].transaction_id = txid
                         /\ d.address_outputs[k].block_height = height
                         /\ d.address_outputs[k].output_index = output_index_val
                         /\ d.address_outputs[k].is_spent = FALSE} IN
         IF hits # {}
         THEN LET o == d.address_outputs[CHOOSE k \in hits : \A j \in hits : k <= j] IN
              [found |-> TRUE, output_id |-> o.output_id, address_id |-> o.address_id,
               value_satoshis |-> o.value_satoshis]
         ELSE FindAtHeights(d, Tail(block_heights), txid, output_index_val)

\* a lookup without the is_spent filter
find_output_spent_or_not(d, txid, output_index_val) ==
    LET hits == {k \in 1..Len(d.address_outputs) :
                    /\ d.address_outputs[k].transaction_id = txid
                    /\ d.address_outputs[k].output_index = output_index_val} IN
    IF hits = {} THEN NoOutput
    ELSE LET o == d.address_outputs[CHOOSE k \in hits : \A j \in hits : k <= j] IN
         [found |-> TRUE, output_id |-> o.output_id, address_id |-> o.address_id,
          value_satoshis |-> o.value_satoshis]
find_output(d, txid, output_index_val) ==
    LET rows == SelectSeq(d.txid_block_index, LAMBDA r : r.transaction_id = txid)
        block_heights == [k \in 1..Len(rows) |-> rows[k].block_height] IN
    FindAtHeights(d, block_heights, txid, output_index_val)

\* store_transaction_input: insert the input row, bump the spend count and,
\* when a key was revealed, update the address's public key
store_transaction_input(d, address_id_val, txid, block_height_val, input_index_val, spent_output_id_val, value_satoshis_val, public_key_revealed_val) ==
    LET new_id == Len(d.address_inputs) + 1
        new_input == [input_id |-> new_id,
                      address_id |-> address_id_val,
                      transaction_id |-> txid,
                      block_height |-> block_height_val,
                      input_index |-> input_index_val,
                      spent_output_id |-> spent_output_id_val,
                      value_satoshis |-> value_satoshis_val,
                      public_key_revealed |-> public_key_revealed_val]
        d1 == [d EXCEPT !.address_inputs = Append(@, new_input)]
        d2 == update_address_spend_count(d1, address_id_val)
        d3 == IF public_key_revealed_val # NoKey
              THEN update_address_public_key(d2, address_id_val, public_key_revealed_val)
              ELSE d2 IN
    [db |-> d3, id |-> new_id]

\* an update that sets the link and leaves the flag as it was
mark_output_spent_link_only(d, output_id_val, spending_input_id_val) ==
    [d EXCEPT !.address_outputs = [k \in 1..Len(@) |->
        IF @[k].output_id = output_id_val
        THEN [@[k] EXCEPT !.spending_input_id = spending_input_id_val]
        ELSE @[k]]]
\* an update that sets the flag and leaves the link NULL
mark_output_spent_flag_only(d, output_id_val, spending_input_id_val) ==
    [d EXCEPT !.address_outputs = [k \in 1..Len(@) |->
        IF @[k].output_id = output_id_val THEN [@[k] EXCEPT !.is_spent = TRUE] ELSE @[k]]]
\* mark_output_spent: UPDATE address_outputs SET is_spent, spending_input_id
mark_output_spent(d, output_id_val, spending_input_id_val) ==
    [d EXCEPT !.address_outputs = [k \in 1..Len(@) |->
        IF @[k].output_id = output_id_val
        THEN [@[k] EXCEPT !.is_spent = TRUE, !.spending_input_id = spending_input_id_val]
        ELSE @[k]]]

(***************************************************************************)
(* The per-block writer (processor.rs).                                    *)
(***************************************************************************)
\* process_transaction_outputs: for each output the classifier accepts, get
\* or create the address and store the output; k is the next output (1-based)
RECURSIVE OutputsFrom(_, _, _, _)
\* a loop that gives up the transaction's outputs at the first one the
\* classifier rejects
OutputsFromStopAtNone(d, height, tx, k) ==
    IF k > Len(tx.output) THEN d
    ELSE LET script_info == extract_address_from_script(tx.output[k].script_pubkey) IN
         IF script_info.some
         THEN LET a == get_or_create_address(d, script_info.address, script_info.script_type,
                                             height, script_info.extra_data)
                  d1 == store_transaction_output(a.db, a.id, tx.txid, height, k - 1,
                                                 tx.output[k].value) IN
              OutputsFrom(d1, height, tx, k + 1)
         ELSE d

OutputsFrom(d, height, tx, k) ==
    IF k > Len(tx.output) THEN d
    ELSE LET script_info == extract_address_from_script(tx.output[k].script_pubkey) IN
         IF script_info.some
         THEN LET a == get_or_create_address(d, script_info.address, script_info.script_type,
                                             height, script_info.extra_data)
                  d1 == store_transaction_output(a.db, a.id, tx.txid, height, k - 1,
                                                 tx.output[k].value) IN
              OutputsFrom(d1, height, tx, k + 1)
         ELSE OutputsFrom(d, height, tx, k + 1)

process_transaction_outputs(d, height, tx) == OutputsFrom(d, height, tx, 1)

\* process_transaction_inputs: for each input whose previous output is found
\* unspent, store the input and mark the output spent
RECURSIVE InputsFrom(_, _, _, _)
\* a loop that gives up the transaction's inputs at the first one it cannot
\* match
InputsFromStopAtMiss(d, height, tx, k) ==
    IF k > Len(tx.input) THEN d
    ELSE LET output_info == find_output(d, tx.input[k].prev_txid, tx.input[k].vout) IN
         IF output_info.found
         THEN LET public_key == extract_public_key_from_script(tx.input[k].script_sig)
                  i == store_transaction_input(d, output_info.address_id, tx.txid, height,
                                               k - 1, output_info.output_id,
                                               output_info.value_satoshis, public_key)
                  d1 == mark_output_spent(i.db, output_info.output_id, i.id) IN
              InputsFrom(d1, height, tx, k + 1)
         ELSE d

InputsFrom(d, height, tx, k) ==
    IF k > Len(tx.input) THEN d
    ELSE LET output_info == find_output(d, tx.input[k].prev_txid, tx.input[k].vout) IN
         IF output_info.found
         THEN LET public_key == extract_public_key_from_script(tx.input[k].script_sig)
                  i == store_transaction_input(d, output_info.address_id, tx.txid, height,
                                               k - 1, output_info.output_id,
                                               output_info.value_satoshis, public_key)
                  d1 == mark_output_spent(i.db, output_info.output_id, i.id) IN
              InputsFrom(d1, height, tx, k + 1)
         ELSE InputsFrom(d, height, tx, k + 1)

process_transaction_inputs(d, height, tx) == InputsFrom(d, height, tx, 1)

\* a fee taken from the transaction: what its first output pays
fee_satoshis_from_outputs(tx) == IF is_coinbase(tx) THEN 0 ELSE tx.output[1].value
\* let fee_satoshis = Some(0)
fee_satoshis(tx) == 0

\* a loop that walks the block backwards
TransactionAtReversed(txs, tx_index) == txs[Len(txs) - tx_index]
\* txs.iter().enumerate(): the transaction the loop visits at tx_index (0-based)
TransactionAt(txs, tx_index) == txs[tx_index + 1]

\* the body of the loop of process_block_transactions for the transaction at
\* tx_index (0-based)
ProcessTransaction(d, height, tx_index, tx) ==
    LET d1 == store_transaction(d, height, tx_index, tx.txid, is_coinbase(tx),
                                Len(tx.input), Len(tx.output), fee_satoshis(tx))
        d2 == process_transaction_outputs(d1, height, tx) IN
    IF ~is_coinbase(tx) THEN process_transaction_inputs(d2, height, tx) ELSE d2

\* process_block_transactions from the transaction at tx_index on
RECURSIVE process_block_transactions(_, _, _, _)
process_block_transactions(d, height, txs, tx_index) ==
    IF tx_index >= Len(txs) THEN d
    ELSE process_block_transactions(ProcessTransaction(d, height, tx_index,
                                                       TransactionAt(txs, tx_index)),
                                    height, txs, tx_index + 1)

\* everything the transaction closure of process_single_block writes
BlockWrites(d, height) ==
    LET block == ChainBlock(height)
        d1 == store_processed_block(d, height, block.block_hash, block.time,
                                    Len(block.txdata)) IN
    process_block_transactions(d1, height, block.txdata, 0)

\* the heights that have a Block row
StoredHeights(d) == {b.block_height : b \in d.blocks}

\* the store after process_single_block has run for lo, lo + 1, .., hi in this
\* order on the store d, every call returning Ok (the range is halved to keep
\* the evaluation shallow; the order of the writes is the order of the
\* heights)
RECURSIVE StoreRange(_, _, _)
StoreRange(d, lo, hi) ==
    IF lo > hi THEN d
    ELSE IF lo = hi THEN BlockWrites(d, lo)
    ELSE LET mid == (lo + hi) \div 2
             left == StoreRange(d, lo, mid) IN
         IF mid \in StoredHeights(left) THEN StoreRange(left, mid + 1, hi) ELSE left

\* the store after an uninterrupted run over heights 0..h (h = -1: empty)
StoreAfter(h) == StoreRange(EmptyDb, 0, h)

(***************************************************************************)
(* State.                                                                  *)
(*   tip      the node's chain height                                      *)
(*   db       the committed store                                          *)
(*   txn      the open database transaction of process_single_block: its   *)
(*            private view of the store                                    *)
(*   pc, wait the position of the single task and the sleep it is in       *)
(*   ctx      the call site process_single_block returns to                *)
(*   result   what the last call of process_single_block returned          *)
(*   recovered the height whose uncommitted transaction the store dropped  *)
(*            when the process was last killed inside one, or -1           *)
(*   reruns   how often process_single_block was called again for a stored *)
(*            height (SpecReprocess only)                                  *)
(*   horizon  the height the node's chain grows to in this run             *)
(*   probe    what the process's last get_current_blockchain_tip returned  *)
(*   connect_failures how often in a row BitcoinClient::new has failed in  *)
(*            the connection loop of this process                          *)
(*   retry_delay the delay of the client connection loop of run; 0 while   *)
(*            the local is not in use (before the loop and after it, where *)
(*            it is never read again)                                      *)
(*   the rest are the locals of run, process_all_blocks,                   *)
(*   process_new_blocks and process_single_block                           *)
(***************************************************************************)
VARIABLES tip, db, txn, pc, wait, ctx, result, retry_delay,
          current_node_tip_height, start_height, current_tip, current_height,
          starting_height, retries, height, tx_index, recovered, reruns, horizon,
          probe, observed_tip, connect_failures, goc, script, script_info, public_key

vars == <<tip, db, txn, pc, wait, ctx, result, retry_delay,
          current_node_tip_height, start_height, current_tip, current_height,
          starting_height, retries, height, tx_index, recovered, reruns, horizon,
          probe, observed_tip, connect_failures, goc, script, script_info, public_key>>

\* no get_or_create_address call of the stepwise writer in flight
NoCall == [address_string |-> HexEncode(""), id |-> NoId, calls |-> 0, writes |-> 0]
NoTxn == [open |-> FALSE, db |-> EmptyDb]
PsbStages == {"psb_fetch", "psb_conn", "psb_block", "psb_txs"}

\* the locals of a freshly started process
ProcessStart ==
    /\ pc = "startup" /\ wait = 0 /\ ctx = "none" /\ result = "none"
    /\ retry_delay = 0 /\ probe = "none" /\ observed_tip = -1 /\ connect_failures = 0
    /\ current_node_tip_height = 0 /\ start_height = 0 /\ current_tip = 0
    /\ current_height = 0 /\ starting_height = 0 /\ retries = 0
    /\ height = 0 /\ tx_index = 0

Init ==
    /\ tip \in 0..MaxHeight
    /\ db = EmptyDb
    /\ txn = NoTxn
    /\ horizon = MaxHeight
    /\ recovered = -1
    /\ reruns = 0
    /\ goc = NoCall
    /\ script = <<>> /\ script_info = None /\ public_key = NoKey
    /\ ProcessStart

\* resuming two past the last stored height / at the last stored height
NextBlockToProcessSkips(last) == IF last >= 0 THEN last + 2 ELSE 0
NextBlockToProcessRepeats(last) == IF last >= 0 THEN last ELSE 0
\* run: next_block_to_process_if_needed
NextBlockToProcess(last) == IF last >= 0 THEN last + 1 ELSE 0

\* a cursor that moves on by two
AdvanceByTwo(h) == h + 2
\* current_height += 1 after a processed block
Advance(h) == h + 1

\* a transaction whose writes survive an error
TransactionResultKeepsWrites(d, t, ok) == t
\* conn.transaction: commit the closure's writes t on Ok, roll back to the
\* committed store d on Err
TransactionResult(d, t, ok) == IF ok THEN t ELSE d

\* the sleeps of the catch-up loop, in seconds: after a failed tip probe,
\* after a failed batch and after a completed batch
SyncDoneDelay == 5
\* the sleep of a failed batch after a failed tip probe
ProbeRetryDelayAsBatch == SyncDoneDelay
ProbeRetryDelay == 30
\* the two sleeps of the batch result swapped
SyncErrorDelaySwapped == SyncDoneDelay
SyncErrorDelay == 1

\* a hand-off one block early
SyncedOneShort(last, node_tip) == last >= 0 /\ last + 1 >= node_tip
\* run: the store holds a block and u64::from(db_height) >= current_node_tip_height
Synced(last, node_tip) == last >= 0 /\ last >= node_tip

\* a retry loop that runs once more
RetryAllowedOnceMore(r) == r <= MAX_RETRIES
\* while retries < Self::MAX_RETRIES
RetryAllowed(r) == r < MAX_RETRIES

\* a loop that stops one transaction early
AllTransactionsDoneEarly(i, txs) == i >= Len(txs) - 1
\* the loop of process_block_transactions has visited every transaction
AllTransactionsDone(i, txs) == i >= Len(txs)

(***************************************************************************)
(* The node.                                                               *)
(***************************************************************************)
TipAdvance ==
    /\ tip < horizon
    /\ tip' = tip + 1
    /\ UNCHANGED <<public_key, script, script_info, goc, connect_failures, probe, observed_tip, horizon, retry_delay, recovered, reruns, db, txn, pc, wait, ctx, result,
                   current_node_tip_height, start_height, current_tip, current_height,
                   starting_height, retries, height, tx_index>>

(***************************************************************************)
(* tokio::time::sleep returns.                                             *)
(***************************************************************************)
Wake ==
    /\ wait > 0
    /\ wait' = 0
    /\ UNCHANGED <<public_key, script, script_info, goc, connect_failures, probe, observed_tip, horizon, retry_delay, recovered, reruns, tip, db, txn, pc, ctx, result,
                   current_node_tip_height, start_height, current_tip, current_height,
                   starting_height, retries, height, tx_index>>

(***************************************************************************)
(* run: startup (main.rs).                                                 *)
(***************************************************************************)
\* the delay of the connection loop before its first failure, and its cap
InitialRetryDelay == 5
MaxRetryDelay == 300

\* a delay that grows without the cap
NextRetryDelayUncapped(delay) == delay * 2
\* retry_delay = min(retry_delay * 2, max_retry_delay)
NextRetryDelay(delay) == IF delay * 2 < MaxRetryDelay THEN delay * 2 ELSE MaxRetryDelay

\* the pool is created and the migrations run; a failure is returned by run
StartupDb ==
    /\ pc = "startup" /\ wait = 0
    /\ \/ pc' = "connect" /\ retry_delay' = InitialRetryDelay
       \/ pc' = "exit" /\ UNCHANGED retry_delay
    /\ UNCHANGED <<public_key, script, script_info, goc, connect_failures, probe, observed_tip, horizon, recovered, reruns, tip, db, txn, wait, ctx, result,
                   current_node_tip_height, start_height, current_tip, current_height,
                   starting_height, retries, height, tx_index>>

\* one turn of the client connection loop: BitcoinClient::new probes the node
Connect ==
    /\ pc = "connect" /\ wait = 0
    /\ \/ /\ pc' = "catchup_probe"
          /\ retry_delay' = 0
          /\ connect_failures' = 0
          /\ wait' = 0
       \/ /\ connect_failures < MaxConnectFailures
          /\ connect_failures' = connect_failures + 1
          /\ wait' = retry_delay
          /\ retry_delay' = NextRetryDelay(retry_delay)
          /\ UNCHANGED pc
    /\ UNCHANGED <<public_key, script, script_info, goc, probe, observed_tip, horizon, recovered, reruns, tip, db, txn, ctx, result,
                   current_node_tip_height, start_height, current_tip, current_height,
                   starting_height, retries, height, tx_index>>

(***************************************************************************)
(* run: the catch-up loop (main.rs).                                       *)
(***************************************************************************)
\* get_current_blockchain_tip at the head of the catch-up loop
CatchupProbeTip ==
    /\ pc = "catchup_probe" /\ wait = 0
    /\ \/ /\ current_node_tip_height' = tip
          /\ probe' = "ok" /\ observed_tip' = tip
          /\ pc' = "catchup_compare"
          /\ wait' = 0
       \/ /\ probe' = "err" /\ UNCHANGED observed_tip
          /\ wait' = ProbeRetryDelay
          /\ UNCHANGED <<pc, current_node_tip_height>>
    /\ UNCHANGED <<public_key, script, script_info, goc, connect_failures, horizon, retry_delay, recovered, reruns, tip, db, txn, ctx, result, start_height,
                   current_tip, current_height, starting_height, retries, height,
                   tx_index>>

\* a hand-off at the last stored height itself
next_height_for_continuous_processing_stored(db_height) == db_height
\* next_height_for_continuous_processing = db_height + 1
next_height_for_continuous_processing(db_height) == db_height + 1

\* the read of the last stored height and the decision that follows it
CatchupCompare ==
    /\ pc = "catchup_compare" /\ wait = 0
    /\ \/ \* the connection checkout or the query fails: run returns the error
          /\ pc' = "exit"
          /\ UNCHANGED <<start_height, starting_height, current_height>>
       \/ LET last == get_last_processed_height(db) IN
          IF Synced(last, current_node_tip_height)
          THEN /\ starting_height' = next_height_for_continuous_processing(last)
               /\ current_height' = next_height_for_continuous_processing(last)
               /\ pc' = "tail_probe"
               /\ UNCHANGED start_height
          ELSE /\ start_height' = NextBlockToProcess(last)
               /\ pc' = "sync_probe"
               /\ UNCHANGED <<starting_height, current_height>>
    /\ UNCHANGED <<public_key, script, script_info, goc, connect_failures, probe, observed_tip, horizon, retry_delay, recovered, reruns, tip, db, txn, wait, ctx, result,
                   current_node_tip_height, current_tip, retries, height, tx_index>>

(***************************************************************************)
(* process_all_blocks.                                                     *)
(***************************************************************************)
\* the tip probe at its head and the early return
SyncProbeTip ==
    /\ pc = "sync_probe" /\ wait = 0
    /\ \/ \* the probe fails: run logs, sleeps 1 s and loops
          /\ probe' = "err" /\ UNCHANGED observed_tip
          /\ pc' = "catchup_probe" /\ wait' = SyncErrorDelay
          /\ UNCHANGED <<current_tip, current_height>>
       \/ /\ current_tip' = tip
          /\ probe' = "ok" /\ observed_tip' = tip
          /\ IF start_height > tip
             THEN pc' = "catchup_probe" /\ wait' = SyncDoneDelay /\ UNCHANGED current_height
             ELSE pc' = "sync_loop" /\ wait' = 0 /\ current_height' = start_height
    /\ UNCHANGED <<public_key, script, script_info, goc, connect_failures, horizon, retry_delay, recovered, reruns, tip, db, txn, ctx, result,
                   current_node_tip_height, start_height, starting_height, retries,
                   height, tx_index>>

\* a loop that runs one block past the tip it was given
WithinTipOrNext(cursor, tip_height) == cursor <= tip_height + 1
\* while current_height <= current_tip
WithinTip(cursor, tip_height) == cursor <= tip_height

\* the head of its while loop
SyncLoop ==
    /\ pc = "sync_loop" /\ wait = 0
    /\ IF WithinTip(current_height, current_tip)
       THEN /\ pc' = "psb_fetch" /\ ctx' = "sync" /\ height' = current_height
            /\ result' = "none" /\ wait' = 0
       ELSE /\ pc' = "catchup_probe" /\ wait' = SyncDoneDelay
            /\ UNCHANGED <<ctx, height, result>>
    /\ UNCHANGED <<public_key, script, script_info, goc, connect_failures, probe, observed_tip, horizon, retry_delay, recovered, reruns, tip, db, txn, current_node_tip_height,
                   start_height, current_tip, current_height, starting_height, retries,
                   tx_index>>

(***************************************************************************)
(* process_new_blocks.                                                     *)
(***************************************************************************)
\* the tip probe at the head of the tailing loop; a failure is returned
TailProbeTip ==
    /\ pc = "tail_probe" /\ wait = 0
    /\ \/ /\ current_tip' = tip
          /\ probe' = "ok" /\ observed_tip' = tip
          /\ pc' = "tail_loop"
       \/ /\ probe' = "err" /\ UNCHANGED observed_tip
          /\ pc' = "exit"
          /\ UNCHANGED current_tip
    /\ UNCHANGED <<public_key, script, script_info, goc, connect_failures, horizon, retry_delay, recovered, reruns, tip, db, txn, wait, ctx, result,
                   current_node_tip_height, start_height, current_height,
                   starting_height, retries, height, tx_index>>

\* the head of the inner while loop
TailLoop ==
    /\ pc = "tail_loop" /\ wait = 0
    /\ IF WithinTip(current_height, current_tip)
       THEN /\ pc' = "psb_fetch" /\ ctx' = "tail" /\ height' = current_height
            /\ result' = "none" /\ wait' = 0
       ELSE /\ pc' = "tail_probe" /\ wait' = 10
            /\ UNCHANGED <<ctx, height, result>>
    /\ UNCHANGED <<public_key, script, script_info, goc, connect_failures, probe, observed_tip, horizon, retry_delay, recovered, reruns, tip, db, txn, current_node_tip_height,
                   start_height, current_tip, current_height, starting_height, retries,
                   tx_index>>

\* the head of the retry loop
TailRetry ==
    /\ pc = "tail_retry" /\ wait = 0
    /\ IF RetryAllowed(retries)
       THEN /\ retries' = retries + 1
            /\ wait' = RETRY_DELAY
            /\ pc' = "psb_fetch" /\ ctx' = "retry" /\ height' = current_height
            /\ result' = "none"
       ELSE /\ pc' = "exit"
            /\ UNCHANGED <<retries, wait, ctx, height, result>>
    /\ UNCHANGED <<public_key, script, script_info, goc, connect_failures, probe, observed_tip, horizon, retry_delay, recovered, reruns, tip, db, txn, current_node_tip_height,
                   start_height, current_tip, current_height, starting_height,
                   tx_index>>

(***************************************************************************)
(* process_single_block, one step per suspension point or store call.      *)
(***************************************************************************)
\* where the caller goes after Ok(()), and its cursor
ReturnOk ==
    /\ result' = "ok"
    /\ current_height' = IF ctx = "rerun" THEN current_height ELSE Advance(current_height)
    /\ CASE ctx = "sync" ->
               \* every TipRecheckInterval blocks the tip is probed again; the
               \* value is only logged, a failed probe is returned
               IF current_height' % TipRecheckInterval = 0
               THEN \/ probe' = "ok" /\ observed_tip' = tip /\ pc' = "sync_loop" /\ wait' = 0
                    \/ probe' = "err" /\ UNCHANGED observed_tip /\ pc' = "catchup_probe" /\ wait' = SyncErrorDelay
               ELSE pc' = "sync_loop" /\ wait' = 0 /\ UNCHANGED <<probe, observed_tip>>
         [] ctx \in {"tail", "retry"} -> pc' = "tail_loop" /\ wait' = 0 /\ UNCHANGED <<probe, observed_tip>>
         [] OTHER -> pc' = "catchup_probe" /\ wait' = 0 /\ UNCHANGED <<probe, observed_tip>>
    /\ UNCHANGED retries

\* where the caller goes after Err(e)
ReturnErr(e) ==
    /\ result' = e
    /\ CASE ctx = "sync" -> pc' = "catchup_probe" /\ wait' = SyncErrorDelay /\ UNCHANGED retries
         [] ctx = "tail" -> pc' = "tail_retry" /\ wait' = 0 /\ retries' = 0
         [] ctx = "retry" -> pc' = "tail_retry" /\ wait' = 0 /\ UNCHANGED retries
         [] OTHER -> pc' = "catchup_probe" /\ wait' = 0 /\ UNCHANGED retries
    /\ UNCHANGED current_height

\* get_block_by_height succeeds: the node serves the blocks up to its tip
PsbFetch ==
    /\ pc = "psb_fetch" /\ wait = 0
    /\ height <= tip
    /\ pc' = "psb_conn"
    /\ UNCHANGED <<public_key, script, script_info, goc, connect_failures, probe, observed_tip, horizon, retry_delay, recovered, reruns, tip, db, txn, wait, ctx, result,
                   current_node_tip_height, start_height, current_tip, current_height,
                   starting_height, retries, height, tx_index>>

\* db_pool.get succeeds and the transaction is opened
PsbConn ==
    /\ pc = "psb_conn" /\ wait = 0
    /\ txn' = [open |-> TRUE, db |-> db]
    /\ pc' = "psb_block"
    /\ UNCHANGED <<public_key, script, script_info, goc, connect_failures, probe, observed_tip, horizon, retry_delay, recovered, reruns, tip, db, wait, ctx, result,
                   current_node_tip_height, start_height, current_tip, current_height,
                   starting_height, retries, height, tx_index>>

\* 1. store block data
PsbStoreBlock ==
    /\ pc = "psb_block" /\ wait = 0
    /\ LET block == ChainBlock(height) IN
       txn' = [txn EXCEPT !.db = store_processed_block(@, height, block.block_hash,
                                                       block.time, Len(block.txdata))]
    /\ tx_index' = 0
    /\ pc' = "psb_txs"
    /\ UNCHANGED <<public_key, script, script_info, goc, connect_failures, probe, observed_tip, horizon, retry_delay, recovered, reruns, tip, db, wait, ctx, result,
                   current_node_tip_height, start_height, current_tip, current_height,
                   starting_height, retries, height>>

\* 2. one turn of the loop of process_block_transactions
PsbTransaction ==
    /\ pc = "psb_txs" /\ wait = 0
    /\ LET txs == ChainBlock(height).txdata IN
       /\ ~AllTransactionsDone(tx_index, txs)
       /\ txn' = [txn EXCEPT !.db = ProcessTransaction(@, height, tx_index,
                                                       TransactionAt(txs, tx_index))]
    /\ tx_index' = tx_index + 1
    /\ UNCHANGED <<public_key, script, script_info, goc, connect_failures, probe, observed_tip, horizon, retry_delay, recovered, reruns, tip, db, pc, wait, ctx, result,
                   current_node_tip_height, start_height, current_tip, current_height,
                   starting_height, retries, height>>

\* the closure returns Ok: the transaction commits and the call returns Ok
PsbCommit ==
    /\ pc = "psb_txs" /\ wait = 0
    /\ AllTransactionsDone(tx_index, ChainBlock(height).txdata)
    /\ db' = TransactionResult(db, txn.db, TRUE)
    /\ txn' = NoTxn
    /\ ReturnOk
    /\ UNCHANGED <<public_key, script, script_info, goc, connect_failures, horizon, retry_delay, recovered, reruns, tip, ctx, current_node_tip_height, start_height,
                   current_tip, starting_height, height, tx_index>>

\* any step fails (the fetch, the checkout, a write, the commit): an open
\* transaction is rolled back and the call returns the error
PsbFail ==
    /\ pc \in PsbStages /\ wait = 0
    /\ db' = IF txn.open THEN TransactionResult(db, txn.db, FALSE) ELSE db
    /\ txn' = NoTxn
    /\ ReturnErr(CASE pc = "psb_fetch" -> "err_fetch"
                   [] pc = "psb_conn" -> "err_conn"
                   [] OTHER -> "err_txn")
    /\ UNCHANGED <<public_key, script, script_info, goc, connect_failures, probe, observed_tip, horizon, retry_delay, recovered, reruns, tip, ctx, current_node_tip_height, start_height,
                   current_tip, starting_height, height, tx_index>>

(***************************************************************************)
(* The process is killed, or has exited, and its supervisor starts it      *)
(* again: the store drops the uncommitted transaction.                     *)
(***************************************************************************)
Restart ==
    /\ ~(ProcessStart /\ ~txn.open)
    /\ txn' = NoTxn
    /\ pc' = "startup" /\ wait' = 0 /\ ctx' = "none" /\ result' = "none"
    /\ retry_delay' = 0
    /\ current_node_tip_height' = 0 /\ start_height' = 0 /\ current_tip' = 0
    /\ current_height' = 0 /\ starting_height' = 0 /\ retries' = 0
    /\ height' = 0 /\ tx_index' = 0
    /\ recovered' = IF txn.open THEN height ELSE recovered
    /\ probe' = "none" /\ observed_tip' = -1 /\ connect_failures' = 0
    /\ UNCHANGED <<public_key, script, script_info, goc, horizon, reruns, tip, db>>

Next ==
    \/ TipAdvance
    \/ Wake
    \/ StartupDb
    \/ Connect
    \/ CatchupProbeTip
    \/ CatchupCompare
    \/ SyncProbeTip
    \/ SyncLoop
    \/ TailProbeTip
    \/ TailLoop
    \/ TailRetry
    \/ PsbFetch
    \/ PsbConn
    \/ PsbStoreBlock
    \/ PsbTransaction
    \/ PsbCommit
    \/ PsbFail
    \/ Restart

Spec == Init /\ [][Next]_vars

(***************************************************************************)
(* process_single_block called again for a height already stored, in a    *)
(* run that has not lost an open transaction to a restart.                 *)
(***************************************************************************)
Reprocess ==
    /\ pc = "catchup_probe" /\ wait = 0
    /\ reruns < MaxReruns
    /\ recovered = -1
    /\ reruns' = reruns + 1
    /\ \E h \in 0..horizon :
          /\ \E b \in db.blocks : b.block_height = h
          /\ height' = h
    /\ pc' = "psb_fetch" /\ ctx' = "rerun" /\ result' = "none"
    /\ UNCHANGED <<public_key, script, script_info, goc, connect_failures, probe, observed_tip, horizon, retry_delay, recovered, tip, db, txn, wait, current_node_tip_height, start_height,
                   current_tip, current_height, starting_height, retries, tx_index>>

SpecReprocess == Init /\ [][Next \/ Reprocess]_vars

(***************************************************************************)
(* A process started on a store that earlier runs have filled up to        *)
(* SyncedHeight, two blocks short of the first height at which             *)
(* process_all_blocks probes the tip again.                                *)
(***************************************************************************)
SyncedHeight == TipRecheckInterval - 2

InitSynced ==
    /\ horizon = SyncedHeight + MaxHeight
    /\ tip \in SyncedHeight..horizon
    /\ db = StoreAfter(SyncedHeight)
    /\ txn = NoTxn
    /\ recovered = -1
    /\ reruns = 0
    /\ goc = NoCall
    /\ script = <<>> /\ script_info = None /\ public_key = NoKey
    /\ ProcessStart

SpecSynced == InitSynced /\ [][Next]_vars

(***************************************************************************)
(* One run of the process, from its start to its exit if it exits, under   *)
(* the scheduling of the tokio runtime: rt.block_on drives the single      *)
(* task of run whenever it is ready, and every sleep returns.  The node's  *)
(* tip advances as it pleases, up to horizon.                              *)
(***************************************************************************)
ProcessStep ==
    \/ Wake
    \/ StartupDb
    \/ Connect
    \/ CatchupProbeTip
    \/ CatchupCompare
    \/ SyncProbeTip
    \/ SyncLoop
    \/ TailProbeTip
    \/ TailLoop
    \/ TailRetry
    \/ PsbFail
    \/ PsbFetch
    \/ PsbConn
    \/ PsbStoreBlock
    \/ PsbCommit
    \/ PsbTransaction

NextLive ==
    \/ TipAdvance
    \/ ProcessStep

SpecLive == Init /\ [][NextLive]_vars /\ WF_vars(ProcessStep)

(***************************************************************************)
(* get_or_create_address taken one statement at a time, next to another    *)
(* writer that inserts into addresses on its own connection.  The caller   *)
(* asks for an address; the SELECT either finds the row or falls through   *)
(* to the INSERT; the other writer may commit a row at any point.          *)
(***************************************************************************)
\* how many calls the caller makes / how many rows the other writer inserts
MaxCalls == 2
MaxOtherWrites == 2

\* the address strings the two writers use
AddressStrings ==
    {extract_address_from_script(P2PKH(x)).address : x \in {"h1", "h2", "h8", "h9"}}

\* the unique constraint on addresses.address_string accepts a new row
address_string_unique(d, address_string_val) ==
    \A k \in 1..Len(d.addresses) : d.addresses[k].address_string # address_string_val

InitConcurrent ==
    /\ tip = MaxHeight
    /\ horizon = MaxHeight
    /\ db \in {StoreAfter(h) : h \in -1..MaxHeight}
    /\ txn = NoTxn
    /\ recovered = -1
    /\ reruns = 0
    /\ goc = NoCall
    /\ script = <<>> /\ script_info = None /\ public_key = NoKey
    /\ pc = "goc_idle" /\ wait = 0 /\ ctx = "none" /\ result = "none"
    /\ retry_delay = 0 /\ probe = "none" /\ observed_tip = -1 /\ connect_failures = 0
    /\ current_node_tip_height = 0 /\ start_height = 0 /\ current_tip = 0
    /\ current_height = 0 /\ starting_height = 0 /\ retries = 0
    /\ height = 0 /\ tx_index = 0

\* the caller enters get_or_create_address
GocCall ==
    /\ pc = "goc_idle"
    /\ goc.calls < MaxCalls
    /\ \E a \in AddressStrings :
          goc' = [goc EXCEPT !.address_string = a, !.id = NoId, !.calls = @ + 1]
    /\ pc' = "goc_read" /\ result' = "none"
    /\ UNCHANGED <<tip, db, txn, wait, ctx, retry_delay, current_node_tip_height,
                   start_height, current_tip, current_height, starting_height,
                   retries, height, tx_index, recovered, reruns, horizon, probe, observed_tip,
                   connect_failures, script, script_info, public_key>>

\* SELECT address_id ... .first().optional(): Some(id) returns at once
GocRead ==
    /\ pc = "goc_read"
    /\ IF address_string_unique(db, goc.address_string)
       THEN pc' = "goc_insert" /\ UNCHANGED <<public_key, script, script_info, goc, result>>
       ELSE /\ goc' = [goc EXCEPT !.id = get_or_create_address(db, goc.address_string,
                                               "p2pkh", 0, NoExtra).id]
            /\ pc' = "goc_idle" /\ result' = "ok"
    /\ UNCHANGED <<tip, db, txn, wait, ctx, retry_delay, current_node_tip_height,
                   start_height, current_tip, current_height, starting_height,
                   retries, height, tx_index, recovered, reruns, horizon, probe, observed_tip,
                   connect_failures, script, script_info, public_key>>

\* insert_into(addresses) ... .get_result(conn).context("Failed to insert
\* new address")?: the row goes in, or the statement fails and the error
\* is returned
GocInsert ==
    /\ pc = "goc_insert"
    /\ IF address_string_unique(db, goc.address_string)
       THEN LET r == get_or_create_address(db, goc.address_string, "p2pkh",
                                           get_last_processed_height(db) + 1, NoExtra) IN
            /\ db' = r.db
            /\ goc' = [goc EXCEPT !.id = r.id]
            /\ result' = "ok"
       ELSE result' = "err_txn" /\ UNCHANGED <<db, goc>>
    /\ pc' = "goc_idle"
    /\ UNCHANGED <<tip, txn, wait, ctx, retry_delay, current_node_tip_height,
                   start_height, current_tip, current_height, starting_height,
                   retries, height, tx_index, recovered, reruns, horizon, probe, observed_tip,
                   connect_failures, script, script_info, public_key>>

\* the other writer commits a row of its own
OtherWriterInsert ==
    /\ goc.writes < MaxOtherWrites
    /\ \E a \in AddressStrings :
          /\ address_string_unique(db, a)
          /\ db' = get_or_create_address(db, a, "p2pkh",
                                         get_last_processed_height(db) + 1, NoExtra).db
    /\ goc' = [goc EXCEPT !.writes = @ + 1]
    /\ UNCHANGED <<tip, txn, pc, wait, ctx, result, retry_delay, current_node_tip_height,
                   start_height, current_tip, current_height, starting_height,
                   retries, height, tx_index, recovered, reruns, horizon, probe, observed_tip,
                   connect_failures, script, script_info, public_key>>

NextConcurrent ==
    \/ GocCall
    \/ GocRead
    \/ GocInsert
    \/ OtherWriterInsert

SpecConcurrent == InitConcurrent /\ [][NextConcurrent]_vars

(***************************************************************************)
(* The classifier on its own: process_transaction_outputs hands it one     *)
(* output script; the scripts are drawn from three families.               *)
(***************************************************************************)
\* longest script drawn from the whole alphabet
MaxScriptLen == 3
\* most pushes between the two ends of a multisig-shaped script
MaxKeys == 4
\* most instructions after a P2PKH prefix
MaxTail == 2

ScriptAlphabet ==
    {Op(x) : x \in {"OP_DUP", "OP_HASH160", "OP_EQUALVERIFY", "OP_CHECKSIG", "OP_EQUAL",
                    "OP_CHECKMULTISIG", "OP_PUSHNUM_1", "OP_PUSHNUM_2", "OP_PUSHNUM_4",
                    "OP_NOP"}}
    \cup {Push(0, ""), Push(4, "d1"), Push(20, "h1"), Push(32, "w1"), Push(33, "k1"),
          Push(65, "u1")}
SeqsUpTo(S, n) == UNION {[1..k -> S] : k \in 0..n}
ShortScripts == SeqsUpTo(ScriptAlphabet, MaxScriptLen)

MultisigEnds == {Op("OP_PUSHNUM_1"), Op("OP_PUSHNUM_2"), Op("OP_PUSHNUM_3"),
                 Op("OP_PUSHNUM_4"), Op("OP_DUP"), Push(33, "k1")}
MultisigKeys == {Push(33, "k1"), Push(20, "h1")}
MultisigShaped ==
    {<<a>> \o keys \o <<b, last>> :
        a \in MultisigEnds, b \in MultisigEnds,
        keys \in UNION {[1..k -> MultisigKeys] : k \in 1..MaxKeys},
        last \in {Op("OP_CHECKMULTISIG"), Op("OP_CHECKSIG")}}

TailAlphabet == {Op("OP_NOP"), Op("OP_CHECKMULTISIG"), Op("OP_PUSHNUM_1"), Push(20, "h2")}
PrefixedScripts == {P2PKH("h1") \o t : t \in SeqsUpTo(TailAlphabet, MaxTail)}

WholeScripts == ShortScripts \cup MultisigShaped \cup PrefixedScripts
Scripts == WholeScripts \cup {s \o <<Truncated>> : s \in WholeScripts}

InitClassify ==
    /\ script \in Scripts
    /\ script_info = None
    /\ public_key = NoKey
    /\ tip = MaxHeight
    /\ horizon = MaxHeight
    /\ db = EmptyDb
    /\ txn = NoTxn
    /\ recovered = -1
    /\ reruns = 0
    /\ goc = NoCall
    /\ pc = "classify" /\ wait = 0 /\ ctx = "none" /\ result = "none"
    /\ retry_delay = 0 /\ probe = "none" /\ observed_tip = -1 /\ connect_failures = 0
    /\ current_node_tip_height = 0 /\ start_height = 0 /\ current_tip = 0
    /\ current_height = 0 /\ starting_height = 0 /\ retries = 0
    /\ height = 0 /\ tx_index = 0

\* Self::extract_address_from_script(&output.script_pubkey)
Classify ==
    /\ pc = "classify"
    /\ script_info' = extract_address_from_script(script)
    /\ pc' = "classified"
    /\ UNCHANGED <<script, tip, db, txn, wait, ctx, result, retry_delay,
                   current_node_tip_height, start_height, current_tip, current_height,
                   starting_height, retries, height, tx_index, recovered, reruns,
                   horizon, probe, observed_tip, connect_failures, goc, public_key>>

\* extract_public_key_from_script(&input.script_sig)
ExtractKey ==
    /\ pc = "classify"
    /\ public_key' = extract_public_key_from_script(script)
    /\ pc' = "extracted"
    /\ UNCHANGED <<script, script_info, tip, db, txn, wait, ctx, result, retry_delay,
                   current_node_tip_height, start_height, current_tip, current_height,
                   starting_height, retries, height, tx_index, recovered, reruns,
                   horizon, probe, observed_tip, connect_failures, goc>>

NextClassify == Classify \/ ExtractKey

SpecClassify == InitClassify /\ [][NextClassify]_vars

TypeOK ==
    /\ tip \in 0..horizon
    /\ retry_delay \in {0, 5, 10, 20, 40, 80, 160, 300}
    /\ probe \in {"none", "ok", "err"}
    /\ observed_tip \in -1..horizon
    /\ connect_failures \in 0..MaxConnectFailures
    /\ pc \in PsbStages \cup {"startup", "connect", "catchup_probe", "catchup_compare", "sync_probe", "sync_loop",
                              "tail_probe", "tail_loop", "tail_retry", "exit",
                              "goc_idle", "goc_read", "goc_insert",
                              "classify", "classified", "extracted"}
    /\ goc.calls \in 0..MaxCalls /\ goc.writes \in 0..MaxOtherWrites
    /\ wait \in {0, 1, 2, 5, 10, 20, 30, 40, 80, 160, 300}
    /\ ctx \in {"none", "sync", "tail", "retry", "rerun"}
    /\ result \in {"none", "ok", "err_fetch", "err_conn", "err_txn"}
    /\ retries \in 0..MAX_RETRIES
    /\ txn.open \in BOOLEAN
    /\ height \in 0..horizon
    /\ current_height \in 0..(horizon + 1)
    /\ recovered \in -1..horizon
    /\ reruns \in 0..MaxReruns

(***************************************************************************)
(* Properties.  What a block of the chain should leave in the store is     *)
(* read off the chain itself.                                              *)
(***************************************************************************)
Rows(q) == {q[k] : k \in 1..Len(q)}
RowsAt(q, h) == {k \in 1..Len(q) : q[k].block_height = h}

\* the transaction ids of the chain's block at h
ChainTxids(h) == {ChainBlock(h).txdata[k].txid : k \in 1..Len(ChainBlock(h).txdata)}
\* <<position of the transaction, output index>> of the outputs of block h
\* that carry an address
ChainOutputs(h) ==
    LET txs == ChainBlock(h).txdata IN
    UNION {{<<k, j - 1>> : j \in {i \in 1..Len(txs[k].output) :
                extract_address_from_script(txs[k].output[i].script_pubkey).some}} :
           k \in 1..Len(txs)}
\* <<position of the transaction, input index>> of the inputs of the
\* non-coinbase transactions of block h
ChainInputs(h) ==
    LET txs == ChainBlock(h).txdata IN
    UNION {{<<k, j - 1>> : j \in 1..Len(txs[k].input)} :
           k \in {i \in 1..Len(txs) : ~is_coinbase(txs[i])}}

\* an output row that was in the store when the transaction at position k of
\* block h matched its inputs
VisibleTo(d, o, h, k) ==
    \/ o.block_height < h
    \/ /\ o.block_height = h
       /\ \E i \in 1..k : ChainBlock(h).txdata[i].txid = o.transaction_id

BlockAbsent(d, h) ==
    /\ \A t \in d.transactions : t.block_height # h
    /\ \A r \in Rows(d.txid_block_index) : r.block_height # h
    /\ RowsAt(d.address_outputs, h) = {}
    /\ RowsAt(d.address_inputs, h) = {}

BlockComplete(d, h) ==
    LET txs == ChainBlock(h).txdata IN
    /\ {t.transaction_id : t \in {r \in d.transactions : r.block_height = h}} = ChainTxids(h)
    /\ {r.transaction_id : r \in {x \in Rows(d.txid_block_index) : x.block_height = h}}
           = ChainTxids(h)
    \* one output row per output of the block that carries an address
    /\ Cardinality(RowsAt(d.address_outputs, h)) = Cardinality(ChainOutputs(h))
    /\ \A c \in ChainOutputs(h) : \E k \in RowsAt(d.address_outputs, h) :
           /\ d.address_outputs[k].transaction_id = txs[c[1]].txid
           /\ d.address_outputs[k].output_index = c[2]
           /\ d.addresses[d.address_outputs[k].address_id].address_string =
                  extract_address_from_script(txs[c[1]].output[c[2] + 1].script_pubkey).address
    \* every input row is an input of the block and spends the output it names
    /\ \A k \in RowsAt(d.address_inputs, h) : \E c \in ChainInputs(h) :
           /\ d.address_inputs[k].transaction_id = txs[c[1]].txid
           /\ d.address_inputs[k].input_index = c[2]
           /\ LET o == d.address_outputs[d.address_inputs[k].spent_output_id] IN
              /\ o.transaction_id = txs[c[1]].input[c[2] + 1].prev_txid
              /\ o.output_index = txs[c[1]].input[c[2] + 1].vout
              /\ o.is_spent
    \* every input of the block has its row, or had nothing left to spend
    /\ \A c \in ChainInputs(h) :
           \/ \E k \in RowsAt(d.address_inputs, h) :
                  /\ d.address_inputs[k].transaction_id = txs[c[1]].txid
                  /\ d.address_inputs[k].input_index = c[2]
           \/ \A o \in Rows(d.address_outputs) :
                  (/\ o.transaction_id = txs[c[1]].input[c[2] + 1].prev_txid
                   /\ o.output_index = txs[c[1]].input[c[2] + 1].vout
                   /\ VisibleTo(d, o, h, c[1])) => o.is_spent

\* the receive counters are the sum of what the stored blocks pay each address
ReceiveCountersOfStoredBlocks(d) ==
    \A a \in Rows(d.addresses) :
        a.total_receive_count =
            Cardinality({<<h, c>> \in UNION {{<<g, x>> : x \in ChainOutputs(g)} :
                                            g \in StoredHeights(d)} :
                LET x == <<h, c>>
                    tx == ChainBlock(x[1]).txdata[x[2][1]] IN
                extract_address_from_script(tx.output[x[2][2] + 1].script_pubkey).address
                    = a.address_string})

\* C1: atomic block commit.  In every state of the committed store, each
\* height either has its Block row together with every Transaction, index,
\* output and input row of that block and the counters those rows imply, or
\* has no row at all.
AtomicBlockCommit ==
    /\ \A h \in 0..horizon :
           IF h \in StoredHeights(db) THEN BlockComplete(db, h) ELSE BlockAbsent(db, h)
    /\ ReceiveCountersOfStoredBlocks(db)

\* a block failed in the middle of its transaction, after the writes of two
\* of its transactions, and none of it is in the store
AtomicBlockCommitWitness ==
    /\ result = "err_txn" /\ tx_index >= 2
    /\ height \notin StoredHeights(db)
    /\ height - 1 \in StoredHeights(db)

Errors == {"err_fetch", "err_conn", "err_txn"}

\* C2: a failed process_single_block leaves the store as it was.  No step of
\* a call other than its successful return changes the committed store, and
\* the step that returns an error leaves the store unchanged, closes the
\* transaction and hands control to the retry path of its caller: the
\* catch-up loop after a 1 s sleep, or the retry loop of tailing.
FailedBlockLeavesStore ==
    [][/\ (pc \in PsbStages /\ result' # "ok") => db' = db
       /\ (pc \in PsbStages /\ result' \in Errors) =>
              /\ db' = db
              /\ get_last_processed_height(db') = get_last_processed_height(db)
              /\ ~txn'.open
              /\ IF ctx = "sync" THEN pc' = "catchup_probe" /\ wait' = 1
                 ELSE pc' = "tail_retry"]_vars

\* a retry in the tailing loop failed inside the transaction after the block
\* row and a transaction had been written
FailedBlockLeavesStoreWitness ==
    /\ result = "err_txn" /\ ctx = "retry" /\ pc = "tail_retry"
    /\ tx_index >= 1 /\ retries >= 2
    /\ get_last_processed_height(db) = height - 1

\* C3: height contiguity.  Every stored height above 0 has its predecessor
\* stored (the start height of an empty store is 0).
HeightContiguity ==
    \A h \in StoredHeights(db) : h > 0 => (h - 1) \in StoredHeights(db)

\* blocks were stored by a catch-up batch and then by a retry of the tailing
\* loop
HeightContiguityWitness ==
    /\ ctx = "retry" /\ result = "ok" /\ pc = "tail_loop"
    /\ start_height >= 1 /\ start_height < starting_height
    /\ current_height > starting_height
    /\ Cardinality(StoredHeights(db)) >= 3

\* C4: commits are in height order in steps of one.  The store changes only
\* when a call returns Ok, and the height that call commits is the last
\* stored height plus one and becomes the last stored height; so within a
\* process lifetime each commit is one above the commit before it.
CommitsInOrder ==
    [][/\ db' # db => (pc \in PsbStages /\ result' = "ok")
       /\ (pc \in PsbStages /\ result' = "ok") =>
              /\ height = get_last_processed_height(db) + 1
              /\ get_last_processed_height(db') = height
              /\ StoredHeights(db') = StoredHeights(db) \cup {height}]_vars

\* this process stored blocks in catch-up, handed off, and stored a block in
\* the tailing loop
CommitsInOrderWitness ==
    /\ ctx = "tail" /\ result = "ok"
    /\ start_height >= 1 /\ start_height < starting_height
    /\ current_height = starting_height + 1
    /\ get_last_processed_height(db) = starting_height

\* C5: restart safety.  Whenever and however often the process is killed and
\* started again, the store is the store an uninterrupted run over the same
\* heights produces: each block's effects are applied exactly once.
RestartSafe == db = StoreAfter(get_last_processed_height(db))

\* the process was killed inside the transaction of a height that a later
\* run has stored, together with a later block
RestartSafeWitness ==
    /\ recovered >= 0
    /\ recovered \in StoredHeights(db)
    /\ get_last_processed_height(db) > recovered

\* C6: spend-link consistency of the committed store.  An output is spent iff
\* its spending_input_id is set iff an input row names it as spent_output_id,
\* and spending_input_id is the id of every such input.
SpendLinkConsistency ==
    \A o \in Rows(db.address_outputs) :
        /\ o.is_spent <=> (o.spending_input_id # NoId)
        /\ o.is_spent <=> (\E i \in Rows(db.address_inputs) :
                               i.spent_output_id = o.output_id)
        /\ \A i \in Rows(db.address_inputs) :
               i.spent_output_id = o.output_id => o.spending_input_id = i.input_id

\* a block with two inputs naming the same previous output is stored, and the
\* store holds spent and unspent outputs
SpendLinkConsistencyWitness ==
    /\ 2 \in StoredHeights(db)
    /\ \E o \in Rows(db.address_outputs) : o.is_spent
    /\ \E o \in Rows(db.address_outputs) : ~o.is_spent

\* C7: counter correctness of the committed store.  Each address's
\* total_receive_count is its number of output rows and its
\* total_spend_count its number of input rows.
CounterCorrectness ==
    \A a \in Rows(db.addresses) :
        /\ a.total_receive_count =
               Cardinality({k \in 1..Len(db.address_outputs) :
                               db.address_outputs[k].address_id = a.address_id})
        /\ a.total_spend_count =
               Cardinality({k \in 1..Len(db.address_inputs) :
                               db.address_inputs[k].address_id = a.address_id})

\* an address that received several times and was spent from several times
CounterCorrectnessWitness ==
    \E a \in Rows(db.addresses) : a.total_receive_count >= 3 /\ a.total_spend_count >= 2

\* C8: a stored public key is never replaced, neither in the view of an open
\* transaction from one store call to the next nor in the committed store.
PublicKeyWrittenOnce ==
    [][/\ (txn.open /\ txn'.open) =>
              \A k \in 1..Len(txn.db.addresses) :
                  txn.db.addresses[k].public_key # NoKey =>
                      txn'.db.addresses[k].public_key = txn.db.addresses[k].public_key
       /\ \A k \in 1..Len(db.addresses) :
              db.addresses[k].public_key # NoKey =>
                  db'.addresses[k].public_key = db.addresses[k].public_key]_vars

\* C9: the exposure flag is monotone and mirrors the key.  In the committed
\* store and in the view of an open transaction the flag is set iff a key is
\* stored, and a set flag is still set after every store call and commit.
ExposureMonotone ==
    /\ [](\A a \in Rows(db.addresses) \cup Rows(txn.db.addresses) :
              a.is_public_key_exposed <=> (a.public_key # NoKey))
    /\ [][/\ \A k \in 1..Len(db.addresses) :
                 db.addresses[k].is_public_key_exposed =>
                     /\ k <= Len(db'.addresses)
                     /\ db'.addresses[k].is_public_key_exposed
          /\ (txn.open /\ txn'.open) =>
                 \A k \in 1..Len(txn.db.addresses) :
                     txn.db.addresses[k].is_public_key_exposed =>
                         /\ k <= Len(txn'.db.addresses)
                         /\ txn'.db.addresses[k].is_public_key_exposed]_vars

\* blocks were stored after an address was exposed, and another address has
\* no key yet
ExposureMonotoneWitness ==
    /\ \E a \in Rows(db.addresses) :
           a.is_public_key_exposed /\ a.first_seen_block_height + 2 \in StoredHeights(db)
    /\ \E a \in Rows(db.addresses) : ~a.is_public_key_exposed /\ a.public_key = NoKey

\* C10: processing a stored height again leaves the store unchanged.
ReprocessLeavesStore ==
    [][(ctx = "rerun" /\ pc \in PsbStages) => db' = db]_vars

\* C11: the retry ladder of the tailing loop.  A block that failed is tried
\* again at most MAX_RETRIES = 3 times (4 attempts on one height), each retry
\* after a 2 s sleep; the ladder ends the loop with an error exactly when the
\* first attempt and all 3 retries have failed; an attempt that succeeds moves
\* the cursor on by one, and the next block is a first attempt whose first
\* failure starts the count at 0.
TailRetryLadder ==
    /\ [](retries <= 3)
    /\ [](pc = "tail_retry" => result \in Errors)
    /\ [][/\ (pc = "tail_retry" /\ pc' = "psb_fetch") =>
                 /\ retries < 3 /\ retries' = retries + 1
                 /\ wait' = 2 /\ ctx' = "retry"
                 /\ height' = current_height /\ current_height' = current_height
          /\ (ctx = "retry" /\ pc = "psb_fetch" /\ pc' = "psb_conn") => wait = 0
          /\ (pc = "tail_retry" /\ pc' = "exit") => retries = 3
          /\ (pc = "tail_retry" /\ retries = 3 /\ pc' \notin {"tail_retry", "startup"}) =>
                 pc' = "exit"
          /\ (ctx \in {"tail", "retry"} /\ pc \in PsbStages /\ pc' \notin PsbStages) =>
                 \/ pc' = "startup"
                 \/ /\ result' = "ok" /\ pc' = "tail_loop" /\ height \in StoredHeights(db')
                    /\ current_height' = current_height + 1
                 \/ /\ result' \in Errors /\ pc' = "tail_retry"
                    /\ current_height' = current_height
                    /\ retries' = IF ctx = "tail" THEN 0 ELSE retries
          /\ (pc = "tail_loop" /\ pc' = "psb_fetch") =>
                 ctx' = "tail" /\ height' = current_height]_vars

\* the loop has ended with an error after the 4th failed attempt on a height,
\* having processed an earlier height before
TailRetryLadderWitness ==
    /\ pc = "exit" /\ ctx = "retry" /\ retries = 3 /\ result \in Errors
    /\ current_height > starting_height
    /\ current_height \notin StoredHeights(db)

\* C12: once startup is over (the store migrated, the node client built), the
\* process ends with an error only when a block has used up its retries in
\* the tailing loop; every other node or store error (a failed tip probe in
\* catch-up or in tailing, a failed read of the last stored height, a failed
\* connection checkout) leads back to a retry path.
FatalOnlyAfterRetries ==
    [][(pc' = "exit" /\ pc \notin {"exit", "startup"}) =>
           (pc = "tail_retry" /\ retries = MAX_RETRIES /\ result \in Errors)]_vars

\* C13: the catch-up loop.  A tip probe is followed by the comparison, the
\* comparison by a sync batch while the resume height (last stored height + 1,
\* or 0) is at most the tip just probed, and the batch by the next tip probe;
\* the loop is left for the tailing loop only at a comparison, and exactly when
\* the resume height is above the tip just probed; tailing starts at the last
\* stored height + 1.
CatchupLoop ==
    [][LET last == get_last_processed_height(db)
           resume_height == IF last >= 0 THEN last + 1 ELSE 0 IN
       /\ (pc = "catchup_probe" /\ pc' \notin {"catchup_probe", "startup"}) =>
              (pc' = "catchup_compare" /\ current_node_tip_height' = tip)
       /\ (pc = "catchup_compare" /\ pc' \notin {"catchup_compare", "startup", "exit"}) =>
              IF resume_height > current_node_tip_height
              THEN /\ pc' = "tail_probe"
                   /\ starting_height' = last + 1 /\ current_height' = last + 1
              ELSE pc' = "sync_probe" /\ start_height' = resume_height
       /\ (pc' = "tail_probe" /\ pc \notin {"tail_probe", "tail_loop"}) =>
              pc = "catchup_compare"
       /\ (pc \in {"sync_probe", "sync_loop"} /\ pc' \notin {"sync_probe", "sync_loop", "startup"}) =>
              \/ pc' = "catchup_probe"
              \/ pc' = "psb_fetch" /\ ctx' = "sync"
       /\ (ctx = "sync" /\ pc \in PsbStages /\ pc' \notin PsbStages \cup {"startup"}) =>
              pc' \in {"sync_loop", "catchup_probe"}
       /\ (pc = "tail_loop" /\ pc' = "psb_fetch") => height' = last + 1]_vars

\* the loop was left for tailing after batches had stored blocks, and the
\* tailing loop is about to fetch the block after the last stored one
CatchupLoopWitness ==
    /\ pc = "psb_fetch" /\ ctx = "tail"
    /\ starting_height >= 2 /\ height = starting_height
    /\ height = get_last_processed_height(db) + 1
    /\ start_height >= 1

\* the height above every stored height, 0 for an empty store
ResumeHeight(d) ==
    IF d.blocks = {} THEN 0
    ELSE 1 + CHOOSE h \in StoredHeights(d) : \A g \in StoredHeights(d) : g <= h

\* C14: at every comparison the next height to process is the last stored
\* height + 1, or 0 for an empty store; it is read from the store in each turn
\* of the loop, so the batch that follows an abandoned batch starts where the
\* store ends, not where the abandoned batch's cursor was.
ResumeFromStore ==
    /\ [](pc = "sync_probe" => start_height = ResumeHeight(db))
    /\ [][/\ (pc = "catchup_compare" /\ pc' = "sync_probe") =>
                 start_height' = ResumeHeight(db)
          /\ (pc = "catchup_compare" /\ pc' = "tail_probe") =>
                 current_height' = ResumeHeight(db)
          /\ (pc = "sync_probe" /\ pc' = "sync_loop") =>
                 current_height' = ResumeHeight(db)]_vars

\* a batch was abandoned at a failed block above height 1, and the comparison
\* that followed has set the next batch's start from the store
ResumeFromStoreWitness ==
    /\ pc = "sync_probe" /\ ctx = "sync" /\ result \in Errors
    /\ current_height >= 2 /\ start_height = current_height
    /\ start_height = get_last_processed_height(db) + 1

\* C15: during a sync batch the tip is probed again every 100 blocks, and
\* when that probe returns a higher tip the batch's upper bound becomes the
\* new tip, so that the same batch goes on up to it.
RecheckExtendsBatch ==
    [][(/\ ctx = "sync" /\ pc = "psb_txs" /\ pc' = "sync_loop"
        /\ current_height' % TipRecheckInterval = 0 /\ probe' = "ok"
        /\ tip > current_tip) => current_tip' = tip]_vars

\* C16: the results of a sync batch.  When process_single_block fails in a
\* batch the batch is over (a batch attempts a height only at its start or
\* after an Ok), the process sleeps 1 s and then probes the tip; when the batch
\* runs past its tip without an error the process sleeps 5 s and then probes
\* the tip.  A failed block in catch-up never ends the process.
SyncBatchResult ==
    [][/\ (ctx = "sync" /\ pc \in PsbStages /\ result' \in Errors) =>
              /\ pc' = "catchup_probe" /\ wait' = 1
              /\ db' = db /\ current_height' = current_height
       /\ (pc' = "psb_fetch" /\ ctx' = "sync" /\ pc # "psb_fetch") =>
              (pc = "sync_loop" /\ height' = current_height)
       /\ (pc' = "sync_loop" /\ pc # "sync_loop") =>
              \/ pc = "sync_probe" /\ current_height' = start_height
              \/ /\ ctx = "sync" /\ pc = "psb_txs" /\ result' = "ok"
                 /\ current_height' = current_height + 1
       /\ (pc = "sync_loop" /\ pc' \notin {"sync_loop", "psb_fetch", "startup"}) =>
              /\ current_height > current_tip
              /\ pc' = "catchup_probe" /\ wait' = 5
       /\ (pc = "catchup_probe" /\ wait > 0 /\ pc' # "startup") =>
              /\ pc' = "catchup_probe" /\ wait' \in {0, wait}
              /\ db' = db /\ txn' = txn
       /\ (pc = "catchup_probe" /\ wait = 0 /\ pc' # "startup") =>
              /\ \/ pc' = "catchup_compare" /\ probe' = "ok"
                 \/ pc' = "catchup_probe" /\ probe' = "err"
                 \/ pc' = "catchup_probe" /\ probe' = probe /\ wait' = 0
              /\ db' = db /\ txn' = txn
       /\ (ctx = "sync" /\ pc \in PsbStages) => pc' # "exit"]_vars

\* a batch that had stored a block was abandoned at the next one, and the
\* process is in its 1 s sleep before the tip probe
SyncBatchResultWitness ==
    /\ pc = "catchup_probe" /\ wait = 1 /\ ctx = "sync" /\ result \in Errors
    /\ current_height > start_height
    /\ current_height \notin StoredHeights(db)
    /\ current_height <= current_tip

\* a step that is a tip probe of the catch-up phase and fails: the probe at
\* the head of the catch-up loop, the probe at the start of
\* process_all_blocks, the probe after every 100th block
FailedHeadProbe ==
    /\ pc = "catchup_probe" /\ wait = 0
    /\ tip' = tip /\ pc' # "startup" /\ probe' = "err"
FailedBatchProbe ==
    \/ /\ pc = "sync_probe"
       /\ tip' = tip /\ pc' # "startup" /\ probe' = "err"
    \/ /\ ctx = "sync" /\ pc = "psb_txs" /\ result' = "ok"
       /\ probe' = "err"

\* C17 as stated: in the catch-up phase every failed tip probe is followed by
\* a 30 s sleep and then another tip probe, with no store access and no block
\* processing in between.
FailedProbeWaits30 ==
    [][(FailedHeadProbe \/ FailedBatchProbe) =>
           (pc' = "catchup_probe" /\ wait' = 30)]_vars

\* C17, amended: a failed tip probe at the head of the catch-up loop is
\* followed by a 30 s sleep, a failed tip probe inside process_all_blocks by
\* the end of the batch and a 1 s sleep; after either sleep the next action is
\* the tip probe at the head of the loop, and the store is not touched and no
\* block is processed in between.
FailedProbeWaits ==
    [][/\ FailedHeadProbe => (pc' = "catchup_probe" /\ wait' = 30)
       /\ FailedBatchProbe => (pc' = "catchup_probe" /\ wait' = 1)
       /\ (FailedHeadProbe \/ (FailedBatchProbe /\ pc = "sync_probe")) =>
              (db' = db /\ txn' = txn)
       /\ (pc = "catchup_probe" /\ probe = "err" /\ pc' # "startup") =>
              /\ db' = db /\ txn' = txn /\ ~txn.open
              /\ IF wait > 0
                 THEN pc' = "catchup_probe" /\ wait' \in {0, wait} /\ probe' = "err"
                 ELSE \/ pc' = "catchup_compare" /\ probe' = "ok"
                      \/ pc' = "catchup_probe" /\ probe' = "err"]_vars

\* the probe at the head of the loop has failed after a batch of this
\* process had stored a block, and the process is in its 30 s sleep
FailedProbeWaitsWitness ==
    /\ pc = "catchup_probe" /\ wait = 30 /\ probe = "err"
    /\ ctx = "sync" /\ result = "ok"
    /\ current_height > start_height

\* C18: the client connection loop at startup.  The k-th failed construction
\* in a row is followed by a sleep of min(5 * 2^(k-1), 300) seconds, so never
\* of more than 300 s; the loop does not give up; the store is not written
\* and no block is processed before a construction succeeds.
ConnectBackoff ==
    /\ [](pc = "connect" => wait <= 300)
    /\ [][/\ (pc = "connect" /\ connect_failures' = connect_failures + 1) =>
                 LET k == connect_failures'
                     doubled == 5 * 2^(k - 1) IN
                 /\ wait' = IF doubled < 300 THEN doubled ELSE 300
                 /\ pc' = "connect"
          /\ (pc = "connect" /\ wait > 0 /\ pc' # "startup") =>
                 pc' = "connect" /\ wait' \in {0, wait}
          /\ pc = "connect" => pc' # "exit"
          /\ pc \in {"startup", "connect"} =>
                 /\ db' = db /\ ~txn.open /\ ~txn'.open
                 /\ pc' \in {"startup", "connect", "exit", "catchup_probe"}]_vars

\* the node has refused the client seven times or more and the process is in
\* a 300 s sleep
ConnectBackoffWitness ==
    pc = "connect" /\ connect_failures >= 7 /\ wait = 300

\* <<j, k, i>>: input k of the transaction at position j of block h names an
\* output that carries an address of the transaction at an earlier position i
\* of the same block (positions and k count from 1)
SameBlockSpends(h) ==
    LET txs == ChainBlock(h).txdata IN
    UNION {{c \in {j} \X (1..Len(txs[j].input)) \X (1..(j - 1)) :
               /\ ~is_coinbase(txs[j])
               /\ txs[j].input[c[2]].prev_txid = txs[c[3]].txid
               /\ <<c[3], txs[j].input[c[2]].vout>> \in ChainOutputs(h)} :
           j \in 1..Len(txs)}

\* in the store d the same-block spend c of block h is matched: its input row
\* is there and names the output row of the same block, which is spent by it
SpendMatched(d, h, c) ==
    LET txs == ChainBlock(h).txdata
        in == txs[c[1]].input[c[2]] IN
    \E r \in Rows(d.address_inputs) :
        /\ r.block_height = h /\ r.transaction_id = txs[c[1]].txid
        /\ r.input_index = c[2] - 1
        /\ LET o == d.address_outputs[r.spent_output_id] IN
           /\ o.block_height = h
           /\ o.transaction_id = in.prev_txid /\ o.output_index = in.vout
           /\ o.is_spent /\ o.spending_input_id = r.input_id

\* C19: order within a block.  The Transaction rows of a block carry the
\* on-chain positions, and an input that names an output of an earlier
\* transaction of its own block is matched: inside the open transaction as
\* soon as its transaction has been written, and in the store with the commit
\* of the block (input row and spent output appear together).
SameBlockSpendMatched ==
    /\ \A t \in db.transactions :
           ChainBlock(t.block_height).txdata[t.transaction_index + 1].txid = t.transaction_id
    /\ \A h \in StoredHeights(db) : \A c \in SameBlockSpends(h) : SpendMatched(db, h, c)
    /\ (txn.open /\ pc = "psb_txs") =>
           \A c \in SameBlockSpends(height) :
               IF c[1] <= tx_index
               THEN SpendMatched(txn.db, height, c)
               ELSE \A r \in Rows(txn.db.address_inputs) :
                        ~(r.block_height = height /\
                          r.transaction_id = ChainBlock(height).txdata[c[1]].txid)

\* block 2 is stored: its third transaction spends output 0 of its second
SameBlockSpendMatchedWitness ==
    /\ 2 \in StoredHeights(db)
    /\ <<3, 1, 2>> \in SameBlockSpends(2)
    /\ \E o \in Rows(db.address_outputs) :
           /\ o.block_height = 2 /\ o.transaction_id = 121 /\ o.is_spent
           /\ db.address_inputs[o.spending_input_id].transaction_id = 122

\* the transactions of the chain that a row with this txid and height stands for
ChainTxs(txid, h) ==
    {ChainBlock(h).txdata[k] : k \in {i \in 1..Len(ChainBlock(h).txdata) :
                                          ChainBlock(h).txdata[i].txid = txid}}

\* C20: coinbase transactions and fees.  No AddressInput row belongs to a
\* coinbase transaction, writing a coinbase transaction changes no input row
\* and no spent flag, the Transaction row of a coinbase is flagged and has
\* fee 0, and every Transaction row has fee 0 (in the store and in the open
\* transaction).
CoinbaseWritesNoInput ==
    /\ [](\A d \in {db, txn.db} :
             /\ \A r \in Rows(d.address_inputs) :
                    \A tx \in ChainTxs(r.transaction_id, r.block_height) : ~is_coinbase(tx)
             /\ \A o \in Rows(d.address_outputs) :
                    o.is_spent =>
                        LET r == d.address_inputs[o.spending_input_id] IN
                        \A tx \in ChainTxs(r.transaction_id, r.block_height) :
                            ~is_coinbase(tx)
             /\ \A t \in d.transactions :
                    /\ t.fee_satoshis = 0
                    /\ \A tx \in ChainTxs(t.transaction_id, t.block_height) :
                           t.is_coinbase = is_coinbase(tx))
    /\ [][(/\ pc = "psb_txs" /\ tx_index' = tx_index + 1
           /\ is_coinbase(ChainBlock(height).txdata[tx_index + 1])) =>
              /\ txn'.db.address_inputs = txn.db.address_inputs
              /\ \A k \in 1..Len(txn.db.address_outputs) :
                     txn'.db.address_outputs[k] = txn.db.address_outputs[k]
              /\ \E t \in txn'.db.transactions :
                     /\ t.block_height = height /\ t.transaction_index = tx_index
                     /\ t.is_coinbase /\ t.fee_satoshis = 0]_vars

\* block 1 is stored: its coinbase has a flagged row with fee 0 and no input
\* row, its second transaction has fee 0 and an input row
CoinbaseWritesNoInputWitness ==
    /\ \E t \in db.transactions :
           t.block_height = 1 /\ t.transaction_id = 110 /\ t.is_coinbase /\ t.fee_satoshis = 0
    /\ \E t \in db.transactions :
           t.block_height = 1 /\ t.transaction_id = 111 /\ ~t.is_coinbase /\ t.fee_satoshis = 0
    /\ \E r \in Rows(db.address_inputs) : r.transaction_id = 111
    /\ \A r \in Rows(db.address_inputs) : r.transaction_id # 110

\* the output rows of d that input c = <<position, input index>> of block h
\* names and that were written before its transaction matched its inputs
NamedOutputs(d, h, c) ==
    LET in == ChainBlock(h).txdata[c[1]].input[c[2] + 1] IN
    {o \in Rows(d.address_outputs) :
        /\ o.transaction_id = in.prev_txid /\ o.output_index = in.vout
        /\ VisibleTo(d, o, h, c[1])}

\* the input rows of d for input c of block h
InputRows(d, h, c) ==
    {r \in Rows(d.address_inputs) :
        /\ r.block_height = h
        /\ r.transaction_id = ChainBlock(h).txdata[c[1]].txid
        /\ r.input_index = c[2]}

\* C21: an input whose previous output is not in the store (unknown txid,
\* unknown vout, an output that was never recorded) has no AddressInput row,
\* no spend counter and no output was changed for it, and the block does not
\* fail on it: the inputs after it that name an unspent output have their
\* rows, every transaction of the block has its row, and the block is stored.
UnmatchedInputSkipped ==
    /\ \A h \in StoredHeights(db) :
           /\ \A c \in ChainInputs(h) :
                  IF NamedOutputs(db, h, c) = {}
                  THEN InputRows(db, h, c) = {}
                  ELSE \/ InputRows(db, h, c) # {}
                       \/ \A o \in NamedOutputs(db, h, c) : o.is_spent
           /\ {t.transaction_id : t \in {r \in db.transactions : r.block_height = h}}
                  = ChainTxids(h)
    /\ \A k \in 1..Len(db.addresses) :
           db.addresses[k].total_spend_count =
               Cardinality({j \in 1..Len(db.address_inputs) :
                               db.address_inputs[j].address_id = k})
    /\ \A o \in Rows(db.address_outputs) :
           o.is_spent <=> (/\ o.spending_input_id \in 1..Len(db.address_inputs)
                           /\ db.address_inputs[o.spending_input_id].spent_output_id
                                  = o.output_id)

\* block 3 is stored: the first two inputs of its second transaction name an
\* output that was never recorded and a vout that does not exist and have no
\* row, the third and the fourth have theirs
UnmatchedInputSkippedWitness ==
    /\ 3 \in StoredHeights(db)
    /\ NamedOutputs(db, 3, <<2, 0>>) = {} /\ InputRows(db, 3, <<2, 0>>) = {}
    /\ NamedOutputs(db, 3, <<2, 1>>) = {} /\ InputRows(db, 3, <<2, 1>>) = {}
    /\ InputRows(db, 3, <<2, 2>>) # {}
    /\ InputRows(db, 3, <<2, 3>>) # {}
    /\ NamedOutputs(db, 2, <<2, 1>>) = {} /\ 2 \in StoredHeights(db)

\* <<position of the transaction, output index>> of the outputs of block h for
\* which the classifier yields None
ChainOutputsDropped(h) ==
    LET txs == ChainBlock(h).txdata IN
    UNION {{<<k, j - 1>> : j \in {i \in 1..Len(txs[k].output) :
                ~extract_address_from_script(txs[k].output[i].script_pubkey).some}} :
           k \in 1..Len(txs)}

\* the output rows of d for output c = <<position, output index>> of block h
OutputRows(d, h, c) ==
    {o \in Rows(d.address_outputs) :
        /\ o.block_height = h
        /\ o.transaction_id = ChainBlock(h).txdata[c[1]].txid
        /\ o.output_index = c[2]}

\* the addresses the classifier yields for the outputs of the stored blocks
ClassifiedAddresses(d) ==
    UNION {{extract_address_from_script(
                ChainBlock(h).txdata[c[1]].output[c[2] + 1].script_pubkey).address :
            c \in ChainOutputs(h)} : h \in StoredHeights(d)}

\* C22: an output for which the classifier yields None has no AddressOutput
\* row, no Address row exists but for a classified output, no receive counter
\* counts anything but an output row, and the block is stored with the other
\* outputs of the transaction recorded under their own output indices.
DroppedOutputSkipped ==
    /\ \A h \in StoredHeights(db) :
           /\ \A c \in ChainOutputsDropped(h) : OutputRows(db, h, c) = {}
           /\ \A c \in ChainOutputs(h) :
                  \E o \in OutputRows(db, h, c) :
                      /\ o.value_satoshis = ChainBlock(h).txdata[c[1]].output[c[2] + 1].value
                      /\ db.addresses[o.address_id].address_string =
                             extract_address_from_script(
                                 ChainBlock(h).txdata[c[1]].output[c[2] + 1].script_pubkey).address
    /\ {a.address_string : a \in Rows(db.addresses)} = ClassifiedAddresses(db)
    /\ \A k \in 1..Len(db.addresses) :
           db.addresses[k].total_receive_count =
               Cardinality({j \in 1..Len(db.address_outputs) :
                               db.address_outputs[j].address_id = k})

\* block 2 is stored: output 0 of its third transaction was dropped and its
\* output 1 is recorded as output 1
DroppedOutputSkippedWitness ==
    /\ 2 \in StoredHeights(db)
    /\ <<3, 0>> \in ChainOutputsDropped(2) /\ OutputRows(db, 2, <<3, 0>>) = {}
    /\ <<3, 1>> \in ChainOutputs(2) /\ OutputRows(db, 2, <<3, 1>>) # {}

(***************************************************************************)
(* C23: get_or_create_address tolerates a concurrent writer: when another  *)
(* writer inserts the same address_string between the call's read and its  *)
(* insert, the call still returns the id of the existing row instead of    *)
(* failing, and exactly one Address row holds that string.                 *)
(***************************************************************************)
AddressIdsOf(d, a) ==
    {d.addresses[k].address_id : k \in {j \in 1..Len(d.addresses) : d.addresses[j].address_string = a}}

ConcurrentWriterTolerated ==
    /\ [](\A a \in AddressStrings : Cardinality(AddressIdsOf(db, a)) <= 1)
    /\ [][pc = "goc_insert" /\ pc' = "goc_idle"
            => /\ result' = "ok"
               /\ AddressIdsOf(db', goc.address_string) = {goc'.id}]_vars

(***************************************************************************)
(* C24 (I4): with the single sequential writer no two Address rows share   *)
(* an address_string, in the committed store and in the open transaction;  *)
(* get_or_create_address called again with a stored address_string returns *)
(* the id of its row and leaves the store as it is.                        *)
(***************************************************************************)
AddressStringsUnique(d) ==
    \A i, j \in 1..Len(d.addresses) :
        d.addresses[i].address_string = d.addresses[j].address_string => i = j

SecondCallReturnsSameId(d) ==
    \A k \in 1..Len(d.addresses) :
        get_or_create_address(d, d.addresses[k].address_string, "unknown",
                              get_last_processed_height(d) + 1, NoExtra)
            = [db |-> d, id |-> d.addresses[k].address_id]

AddressUniqueness ==
    \A d \in {db, txn.db} : AddressStringsUnique(d) /\ SecondCallReturnsSameId(d)

\* an address that the writer has met in two outputs is stored
AddressUniquenessWitness ==
    /\ Len(db.addresses) >= 2
    /\ \E k \in 1..Len(db.addresses) : db.addresses[k].total_receive_count >= 2

(***************************************************************************)
(* C25: for every stored Block h there is exactly one Transaction row per  *)
(* transaction of the on-chain block, its transaction_index is the         *)
(* transaction's position in the block, and the Block row's                *)
(* transaction_count is the number of Transaction rows at h.               *)
(***************************************************************************)
TransactionRowsAt(d, h) == {r \in d.transactions : r.block_height = h}

TransactionRowsMatchBlock ==
    \A b \in db.blocks :
        LET h == b.block_height
            txs == ChainBlock(h).txdata IN
        /\ Cardinality(TransactionRowsAt(db, h)) = Len(txs)
        /\ \A k \in 1..Len(txs) :
               Cardinality({r \in TransactionRowsAt(db, h) :
                               r.transaction_id = txs[k].txid}) = 1
        /\ \A r \in TransactionRowsAt(db, h) :
               /\ r.transaction_index \in 0..(Len(txs) - 1)
               /\ txs[r.transaction_index + 1].txid = r.transaction_id
        /\ b.transaction_count = Cardinality(TransactionRowsAt(db, h))

\* a block of three transactions is stored
TransactionRowsMatchBlockWitness ==
    \E b \in db.blocks :
        /\ b.transaction_count >= 3
        /\ \E r \in TransactionRowsAt(db, b.block_height) : r.transaction_index = 2

(***************************************************************************)
(* C26: the (transaction_id, block_height) keys of TxidBlockIndex are      *)
(* those of Transaction, in the committed store and in the open            *)
(* transaction; store_transaction called a second time with a stored       *)
(* (txid, height) leaves both tables as the first call left them.          *)
(***************************************************************************)
TransactionKeys(d) ==
    {<<r.transaction_id, r.block_height>> : r \in d.transactions}
IndexKeys(d) ==
    {<<r.transaction_id, r.block_height>> : r \in Rows(d.txid_block_index)}

SecondStoreChangesNothing(d) ==
    \A r \in d.transactions :
        LET again == store_transaction(d, r.block_height, r.transaction_index + 1,
                                       r.transaction_id, ~r.is_coinbase,
                                       r.input_count + 1, r.output_count + 1,
                                       r.fee_satoshis) IN
        /\ again.transactions = d.transactions
        /\ again.txid_block_index = d.txid_block_index

TxidIndexMatchesTransactions ==
    /\ \A d \in {db, txn.db} :
           TransactionKeys(d) = IndexKeys(d) /\ SecondStoreChangesNothing(d)
    \* the second call made by a rerun: the open transaction holds what
    \* the committed store holds
    /\ (ctx = "rerun" /\ txn.open)
           => /\ txn.db.transactions = db.transactions
              /\ txn.db.txid_block_index = db.txid_block_index

\* a rerun of a stored block has called store_transaction again, and the
\* index lists one txid at two heights
TxidIndexMatchesTransactionsWitness ==
    /\ ctx = "rerun" /\ txn.open /\ pc = "psb_txs" /\ tx_index >= 1
    /\ \E x, y \in IndexKeys(db) : x[1] = y[1] /\ x[2] # y[2]

(***************************************************************************)
(* C27: find_output returns an output only if an unspent AddressOutput     *)
(* row with that txid and output index exists at a height the index lists  *)
(* for the txid, and then returns that row's output_id, address_id and     *)
(* value; it returns none when the txid is not indexed or every matching   *)
(* output is spent.  (The lookup is a query: it yields a value and no      *)
(* store.)                                                                 *)
(***************************************************************************)
LookupTxids == UNION {ChainTxids(h) : h \in 0..MaxHeight} \cup {999}
LookupVouts == 0..2

MatchingOutputs(d, txid, vout) ==
    {k \in 1..Len(d.address_outputs) :
        /\ d.address_outputs[k].transaction_id = txid
        /\ d.address_outputs[k].output_index = vout}

UnspentIndexed(d, txid, vout) ==
    {k \in MatchingOutputs(d, txid, vout) :
        /\ ~d.address_outputs[k].is_spent
        /\ \E x \in Rows(d.txid_block_index) :
               x.transaction_id = txid /\ x.block_height = d.address_outputs[k].block_height}

FindOutputAnswer(d, txid, vout) ==
    LET r == find_output(d, txid, vout) IN
    /\ r.found => \E k \in UnspentIndexed(d, txid, vout) :
                      /\ r.output_id = d.address_outputs[k].output_id
                      /\ r.address_id = d.address_outputs[k].address_id
                      /\ r.value_satoshis = d.address_outputs[k].value_satoshis
    /\ (\A x \in Rows(d.txid_block_index) : x.transaction_id # txid) => r = NoOutput
    /\ (\A k \in MatchingOutputs(d, txid, vout) : d.address_outputs[k].is_spent)
           => r = NoOutput

FindOutputSound ==
    \A d \in {db, txn.db} : \A txid \in LookupTxids : \A vout \in LookupVouts :
        FindOutputAnswer(d, txid, vout)

\* a txid indexed at two heights whose earlier output is spent and whose
\* later output is found, next to an output whose only row is spent
FindOutputSoundWitness ==
    /\ txn.open
    /\ \E txid \in LookupTxids :
           /\ find_output(txn.db, txid, 0).found
           /\ \E k \in MatchingOutputs(txn.db, txid, 0) :
                  /\ txn.db.address_outputs[k].is_spent
                  /\ txn.db.address_outputs[k].output_id # find_output(txn.db, txid, 0).output_id
    /\ \E txid \in LookupTxids :
           /\ MatchingOutputs(txn.db, txid, 0) # {}
           /\ ~find_output(txn.db, txid, 0).found

(***************************************************************************)
(* The classifier's rules as the specification lists them, over the        *)
(* instruction list of a script.                                           *)
(***************************************************************************)
StandardPushNums == <<"OP_PUSHNUM_1", "OP_PUSHNUM_2", "OP_PUSHNUM_3">>
IsStandardPushNum(i) == \E k \in 1..3 : i.op = StandardPushNums[k]
StandardPushNum(i) == CHOOSE k \in 1..3 : i.op = StandardPushNums[k]

Rule1(s) == is_p2pkh(s)
Rule2(s) == is_p2sh(s)
Rule3(s) ==
    LET i == Instructions(s) IN
    /\ Len(i) = 2 /\ IsPush(i[1]) /\ i[1].len \in {33, 65} /\ i[2].op = "OP_CHECKSIG"
Rule4(s) ==
    /\ is_witness_program(s)
    /\ \/ IsPush(s[1]) /\ s[1].len = 0 /\ s[2].len \in {20, 32}
       \/ s[1].op = "OP_PUSHNUM_1" /\ s[2].len = 32
Rule5(s) ==
    LET i == Instructions(s) IN
    /\ Len(i) >= 4
    /\ i[Len(i)].op = "OP_CHECKMULTISIG"
    /\ IsStandardPushNum(i[1]) /\ IsStandardPushNum(i[Len(i) - 1])
    /\ StandardPushNum(i[1]) <= StandardPushNum(i[Len(i) - 1])
    /\ Len(i) = StandardPushNum(i[Len(i) - 1]) + 3
Rule6(s) ==
    LET i == Instructions(s) IN
    Len(i) > 5 /\ SubSeq(i, 1, 5) \in {P2PKH(i[3].data)}
HashPushes(s) ==
    {k \in 1..Len(Instructions(s)) :
        IsPush(Instructions(s)[k]) /\ Instructions(s)[k].len = 20}
Rule7(s) == HashPushes(s) # {}

(***************************************************************************)
(* C28: the classifier returns a record for every non-empty script; a      *)
(* non-empty script that matches none of rules 1-7 (a script ending in     *)
(* OP_CHECKMULTISIG that fails the P2MS conditions included) is "unknown"  *)
(* with the address Base58Check(0x05, hash160(script)); None is returned   *)
(* only for the empty script.                                              *)
(***************************************************************************)
UnknownFallback ==
    pc = "classified" =>
        /\ script_info.some <=> script # <<>>
        /\ (/\ script # <<>>
            /\ ~Rule1(script) /\ ~Rule2(script) /\ ~Rule3(script) /\ ~Rule4(script)
            /\ ~Rule5(script) /\ ~Rule6(script) /\ ~Rule7(script))
               => /\ script_info.script_type = "unknown"
                  /\ script_info.address = Base58Check(5, Hash160(script))

(***************************************************************************)
(* C29: a script that matches none of rules 1-6 and holds a 20-byte push   *)
(* is "non-standard" with pattern "hash160-found", hash_position the       *)
(* instruction index of the first 20-byte push, and the address            *)
(* Base58Check(0x00, that push's bytes).                                   *)
(***************************************************************************)
HashFoundFallback ==
    (/\ pc = "classified"
     /\ ~Rule1(script) /\ ~Rule2(script) /\ ~Rule3(script) /\ ~Rule4(script)
     /\ ~Rule5(script) /\ ~Rule6(script) /\ Rule7(script))
        => LET first == CHOOSE k \in HashPushes(script) :
                            \A j \in HashPushes(script) : k <= j IN
           /\ script_info.some
           /\ script_info.script_type = "non-standard"
           /\ script_info.extra_data.pattern = "hash160-found"
           /\ script_info.extra_data.hash_position = first - 1
           /\ script_info.address = Base58Check(0, RawBytes(Instructions(script)[first].data))

(***************************************************************************)
(* C30: a script not matched by rules 1-4 is "p2ms" with extra_data {m, n} *)
(* exactly when it has at least 4 instructions, ends in OP_CHECKMULTISIG,  *)
(* starts with OP_PUSHNUM_m, m in 1..3, has OP_PUSHNUM_n, n in 1..3,       *)
(* second to last, m <= n and n + 3 instructions; its address is           *)
(* Base58Check(0x05, hash160(script)).                                     *)
(***************************************************************************)
MultisigClassified ==
    (/\ pc = "classified"
     /\ ~Rule1(script) /\ ~Rule2(script) /\ ~Rule3(script) /\ ~Rule4(script))
        => /\ (script_info.some /\ script_info.script_type = "p2ms") <=> Rule5(script)
           /\ Rule5(script) =>
                 LET i == Instructions(script) IN
                 /\ script_info.extra_data.m = StandardPushNum(i[1])
                 /\ script_info.extra_data.n = StandardPushNum(i[Len(i) - 1])
                 /\ script_info.address = Base58Check(5, Hash160(script))

\* a 2-of-3 script has been classified
MultisigClassifiedWitness ==
    /\ pc = "classified"
    /\ script_info.script_type = "p2ms"
    /\ script_info.extra_data.m = 2 /\ script_info.extra_data.n = 3
    /\ Len(script) = 6

(***************************************************************************)
(* C31: every script whose first five instructions are OP_DUP OP_HASH160   *)
(* PUSH(20) OP_EQUALVERIFY OP_CHECKSIG and that has at least one more      *)
(* instruction, whatever it is, is "non-standard" with pattern             *)
(* "p2pkh-plus", extra_ops the names of the instructions from index 5 on,  *)
(* in order, and the address of the P2PKH script with that hash.           *)
(***************************************************************************)
PrefixedClassified ==
    (pc = "classified" /\ Rule6(script))
        => LET i == Instructions(script) IN
           /\ script_info.some
           /\ script_info.script_type = "non-standard"
           /\ script_info.extra_data.pattern = "p2pkh-plus"
           /\ script_info.extra_data.ops = [k \in 1..(Len(i) - 5) |-> OpString(i[k + 5])]
           /\ script_info.address = extract_address_from_script(P2PKH(i[3].data)).address

(***************************************************************************)
(* C32: the rules are applied in the stated order and the first match      *)
(* wins: a record the classifier returns carries the type (and pattern) of *)
(* the first rule the script matches.  Among witness programs OP_0         *)
(* PUSH(20) is "p2wpkh" with witness version 0, OP_0 PUSH(32) is "p2wsh"   *)
(* with witness version 0, OP_1 PUSH(32) is "p2tr" with witness version 1, *)
(* and any other witness program gets none of the three types and is       *)
(* classified by the later rules.                                          *)
(***************************************************************************)
Rule8(s) == s # <<>>
FirstRule(s) ==
    CASE Rule1(s) -> 1 [] Rule2(s) -> 2 [] Rule3(s) -> 3 [] Rule4(s) -> 4
      [] Rule5(s) -> 5 [] Rule6(s) -> 6 [] Rule7(s) -> 7 [] Rule8(s) -> 8
      [] OTHER -> 9
WitnessType(s) ==
    IF s[1].op = "OP_PUSHNUM_1" THEN "p2tr"
    ELSE IF s[2].len = 20 THEN "p2wpkh" ELSE "p2wsh"
RuleType(s) ==
    CASE FirstRule(s) = 1 -> <<"p2pkh", "null">>
      [] FirstRule(s) = 2 -> <<"p2sh", "null">>
      [] FirstRule(s) = 3 -> <<"p2pk", "p2pk">>
      [] FirstRule(s) = 4 -> <<WitnessType(s), "null">>
      [] FirstRule(s) = 5 -> <<"p2ms", "p2ms">>
      [] FirstRule(s) = 6 -> <<"non-standard", "p2pkh-plus">>
      [] FirstRule(s) = 7 -> <<"non-standard", "hash160-found">>
      [] FirstRule(s) = 8 -> <<"unknown", "script_pattern">>
      [] OTHER -> <<"", "null">>

FirstMatchWins ==
    pc = "classified" =>
        /\ script_info.some =>
               <<script_info.script_type, script_info.extra_data.pattern>> = RuleType(script)
        /\ Rule4(script) =>
               /\ script_info.some
               /\ script_info.script_type = WitnessType(script)
               /\ script_info.address.payload = RawBytes(script[2].data)
               /\ script_info.address.ver = (IF script[1].op = "OP_PUSHNUM_1" THEN 1 ELSE 0)
               /\ script_info.address.enc =
                      (IF script[1].op = "OP_PUSHNUM_1" THEN "bech32m" ELSE "bech32")
        /\ (is_witness_program(script) /\ ~Rule4(script)) =>
               /\ script_info.some
               /\ script_info.script_type \notin {"p2wpkh", "p2wsh", "p2tr"}
               /\ script_info.script_type \in {"non-standard", "unknown"}

\* OP_1 PUSH(20) has fallen through to the hash160-found rule
FirstMatchWinsWitness ==
    /\ pc = "classified"
    /\ is_witness_program(script) /\ script[1].op = "OP_PUSHNUM_1" /\ script[2].len = 20
    /\ script_info.script_type = "non-standard"
    /\ script_info.extra_data.hash_position = 1

(***************************************************************************)
(* C33: input-script public-key extraction returns the bytes of the second *)
(* push exactly when the scriptSig is two instructions, both pushes, the   *)
(* second 33 or 65 bytes long; in every other case (one push, three        *)
(* pushes, an opcode, other lengths) it returns None.                      *)
(***************************************************************************)
RevealsKey(s) ==
    LET i == Instructions(s) IN
    /\ Len(i) = 2
    /\ \A k \in 1..2 : i[k].op = "PUSH"
    /\ i[2].len \in {33, 65}

KeyExtraction ==
    pc = "extracted" =>
        IF RevealsKey(script)
        THEN public_key = Instructions(script)[2].data /\ public_key # NoKey
        ELSE public_key = NoKey

\* a key has been taken from a script of a 4-byte push and a key push
KeyExtractionWitness ==
    /\ pc = "extracted"
    /\ public_key # NoKey
    /\ Instructions(script)[1].len = 4

(***************************************************************************)
(* C34: process_single_block is only invoked, by the sync batch and by the *)
(* tailing loop, for a height at or below the tip value that the most      *)
(* recent successful tip probe returned (observed_tip); the processor      *)
(* never requests a block above the last observed tip.                     *)
(***************************************************************************)
NeverAboveObservedTip ==
    /\ [][(pc' = "psb_fetch" /\ pc # "psb_fetch" /\ ctx' \in {"sync", "tail", "retry"})
            => (height' <= observed_tip' /\ observed_tip' = observed_tip)]_vars
    /\ []((pc \in PsbStages /\ ctx \in {"sync", "tail", "retry"})
            => (height <= observed_tip /\ observed_tip <= tip))

\* the batch is still bound to the tip of its first probe while the
\* re-probe has returned a higher one, and the last block of the batch is
\* requested
NeverAboveObservedTipWitness ==
    /\ pc = "psb_fetch" /\ ctx = "sync"
    /\ height = current_tip /\ current_tip < observed_tip

(***************************************************************************)
(* C35: no AddressOutput is linked to more than one AddressInput: two      *)
(* distinct AddressInput rows never have the same spent_output_id, in the  *)
(* committed store and in the open transaction, also when several inputs   *)
(* name the same (txid, vout) or a txid is indexed at several heights.     *)
(***************************************************************************)
SpentOnce(d) ==
    \A i, j \in 1..Len(d.address_inputs) :
        d.address_inputs[i].spent_output_id = d.address_inputs[j].spent_output_id => i = j

OutputSpentOnce == SpentOnce(db) /\ SpentOnce(txn.db)

\* stored: a transaction with two inputs that name one output, of which
\* one has its row, and the two outputs of a txid indexed at two heights,
\* each spent by its own input
OutputSpentOnceWitness ==
    /\ \E h \in StoredHeights(db) : \E c1, c2 \in ChainInputs(h) :
           LET txs == ChainBlock(h).txdata IN
           /\ c1[1] = c2[1] /\ c1[2] # c2[2]
           /\ txs[c1[1]].input[c1[2] + 1].prev_txid = txs[c2[1]].input[c2[2] + 1].prev_txid
           /\ txs[c1[1]].input[c1[2] + 1].vout = txs[c2[1]].input[c2[2] + 1].vout
           /\ \E k \in RowsAt(db.address_inputs, h) :
                  /\ db.address_inputs[k].transaction_id = txs[c1[1]].txid
                  /\ db.address_inputs[k].input_index \in {c1[2], c2[2]}
    /\ \E a, b \in 1..Len(db.address_outputs) :
           /\ db.address_outputs[a].transaction_id = db.address_outputs[b].transaction_id
           /\ db.address_outputs[a].block_height # db.address_outputs[b].block_height
           /\ db.address_outputs[a].is_spent /\ db.address_outputs[b].is_spent
           /\ db.address_outputs[a].spending_input_id # db.address_outputs[b].spending_input_id

(***************************************************************************)
(* C36: in the tailing loop, with this process the only writer, the cursor *)
(* current_height is the last stored height plus one at every tip probe    *)
(* and before every process_single_block call, so that a restart resumes   *)
(* at the height the running process would have processed next.            *)
(***************************************************************************)
TailCursorIsNextHeight ==
    /\ pc \in {"tail_probe", "tail_loop", "tail_retry"}
           => /\ current_height = get_last_processed_height(db) + 1
              /\ current_height = NextBlockToProcess(get_last_processed_height(db))
    /\ (pc = "psb_fetch" /\ ctx \in {"tail", "retry"})
           => /\ height = current_height
              /\ height = get_last_processed_height(db) + 1
              /\ height = NextBlockToProcess(get_last_processed_height(db))

\* the tailing loop has committed a block of its own and is about to
\* retry the next one
TailCursorIsNextHeightWitness ==
    /\ pc = "psb_fetch" /\ ctx = "retry"
    /\ starting_height < current_height

(***************************************************************************)
(* C37: for every Address, first_seen_block_height is set when the row is  *)
(* created and never changes afterwards, and it is the least block_height  *)
(* of the address's AddressOutput rows.                                    *)
(***************************************************************************)
OutputHeightsOf(d, address_id_val) ==
    {d.address_outputs[k].block_height :
        k \in {j \in 1..Len(d.address_outputs) :
                  d.address_outputs[j].address_id = address_id_val}}

FirstSeenIsLeastHeight(d) ==
    \A k \in 1..Len(d.addresses) :
        /\ d.addresses[k].first_seen_block_height \in OutputHeightsOf(d, d.addresses[k].address_id)
        /\ \A h \in OutputHeightsOf(d, d.addresses[k].address_id) :
               d.addresses[k].first_seen_block_height <= h

FirstSeenKept(d, e) ==
    \A k \in 1..Len(d.addresses) :
        (k <= Len(e.addresses) /\ e.addresses[k].address_string = d.addresses[k].address_string)
            => e.addresses[k].first_seen_block_height = d.addresses[k].first_seen_block_height

FirstSeenFixed ==
    /\ [](FirstSeenIsLeastHeight(db) /\ FirstSeenIsLeastHeight(txn.db))
    /\ [][/\ FirstSeenKept(db, db')
           /\ ((txn.open /\ txn'.open) => FirstSeenKept(txn.db, txn'.db))
           /\ (txn'.open => FirstSeenKept(db, txn'.db))]_vars

\* an address first seen at height 0 has outputs at three heights
FirstSeenFixedWitness ==
    \E k \in 1..Len(db.addresses) :
        /\ db.addresses[k].first_seen_block_height = 0
        /\ Cardinality(OutputHeightsOf(db, db.addresses[k].address_id)) >= 3

(***************************************************************************)
(* C38: an Address row's script_type and script_extra_data are fixed by    *)
(* its first sighting: when a later output classifies to the same address  *)
(* string under another script type or with other extra data, the row is   *)
(* reused, its script_type and extra data stay and only its                *)
(* total_receive_count changes.                                            *)
(***************************************************************************)
\* the script of the chain output behind an output row
ScriptOfRow(o) ==
    LET tx == CHOOSE t \in ChainTxs(o.transaction_id, o.block_height) : TRUE IN
    tx.output[o.output_index + 1].script_pubkey

\* the output row that created the address: its first row
FirstOutputOf(d, address_id_val) ==
    LET rows == {j \in 1..Len(d.address_outputs) :
                    d.address_outputs[j].address_id = address_id_val} IN
    d.address_outputs[CHOOSE j \in rows : \A i \in rows : j <= i]

TypeOfFirstSighting(d) ==
    \A k \in 1..Len(d.addresses) :
        LET first == extract_address_from_script(
                         ScriptOfRow(FirstOutputOf(d, d.addresses[k].address_id))) IN
        /\ d.addresses[k].script_type = first.script_type
        /\ d.addresses[k].script_extra_data = first.extra_data
        /\ d.addresses[k].address_string = first.address

\* the outputs of the transaction being written that pay address row k
\* change, of that row, the receive count alone (its inputs may change the
\* spend count and the key columns)
LaterSightingKeepsRow(d, e) ==
    \A k \in 1..Len(d.addresses) :
        k <= Len(e.addresses) =>
            /\ e.addresses[k].address_id = d.addresses[k].address_id
            /\ e.addresses[k].address_string = d.addresses[k].address_string
            /\ e.addresses[k].script_type = d.addresses[k].script_type
            /\ e.addresses[k].script_extra_data = d.addresses[k].script_extra_data
            /\ e.addresses[k].first_seen_block_height = d.addresses[k].first_seen_block_height
            /\ e.addresses[k].total_receive_count
                   = d.addresses[k].total_receive_count
                     + Cardinality({j \in (Len(d.address_outputs) + 1)..Len(e.address_outputs) :
                                       e.address_outputs[j].address_id = d.addresses[k].address_id})

ScriptTypeFixed ==
    /\ [](TypeOfFirstSighting(db) /\ TypeOfFirstSighting(txn.db))
    /\ [][(txn.open /\ txn'.open) => LaterSightingKeepsRow(txn.db, txn'.db)]_vars

\* an address stored as p2pkh has an output row whose script classifies
\* as non-standard
ScriptTypeFixedWitness ==
    \E k \in 1..Len(db.addresses) : \E j \in 1..Len(db.address_outputs) :
        /\ db.address_outputs[j].address_id = db.addresses[k].address_id
        /\ db.addresses[k].script_type = "p2pkh"
        /\ db.addresses[k].total_receive_count >= 2
        /\ extract_address_from_script(ScriptOfRow(db.address_outputs[j])).script_type
               = "non-standard"

(***************************************************************************)
(* C39: liveness of catch-up: when the node's tip stops advancing and the  *)
(* failures of the node and the store eventually stop, a run whose startup *)
(* has completed eventually has every height up to the tip it probed       *)
(* committed and is in the tailing loop; it does not cycle for ever between the tip      *)
(* probe and the sync batch without committing a block.                    *)
(***************************************************************************)
\* a step in which a call to the node or to the store returns an error
NodeOrStoreFailure ==
    \/ StartupDb /\ pc' = "exit"
    \/ Connect /\ pc' = "connect"
    \/ CatchupProbeTip /\ probe' = "err"
    \/ CatchupCompare /\ pc' = "exit"
    \/ SyncProbeTip /\ probe' = "err"
    \/ TailProbeTip /\ probe' = "err"
    \/ PsbCommit /\ probe' = "err"
    \/ PsbFail

FailuresStop == <>[][~NodeOrStoreFailure]_vars
TipStops == <>[][tip' = tip]_vars

\* run has returned from its startup with an error
StartupFailed == pc = "exit" /\ probe = "none"

TailPcs == {"tail_probe", "tail_loop", "tail_retry"}
InTailing == pc \in TailPcs \/ (pc \in PsbStages /\ ctx \in {"tail", "retry"})

CaughtUp ==
    /\ InTailing
    /\ \A h \in 0..current_node_tip_height : BlockComplete(db, h)

CatchupLive == (FailuresStop /\ TipStops) => <>(CaughtUp \/ StartupFailed)

====
